---- MODULE Spec2Model ----
(***************************************************************************)
(* Last.fm scrobble sync (app/services/sync_lastfm.py): the title cleaner, *)
(* the scrobble and album_art tables, the paged fetch loop and the         *)
(* compilation post-pass, together with the album-art backfill.            *)
(*                                                                         *)
(* Titles are sequences of tokens joined by single spaces.  A token is a   *)
(* plain word or one of the decorative fragments the regular expressions   *)
(* of _REMASTER_PATTERNS look for:                                         *)
(*   "W"      a plain word                 "-"      a dash                  *)
(*   "Y"      a four digit year            "Rem"    Remastered / Remaster   *)
(*   "Exp"    Expanded Edition             "SMix"   Stereo Mix / Mono Mix   *)
(*   "Mix"    Remix / Mix                  "Ver"    Version                 *)
(*   "SVer"   Single Version / Album Version                                *)
(*   "(W"     a word after an opening bracket that is never closed, e.g.    *)
(*            "(Live"                                                       *)
(*   "(Rem)" "(RemY)" "(YRem)" "(Exp)" "(YMix)" "(Mix)"  the bracketed      *)
(*   forms, e.g. "(Remastered)", "(Remastered 2014)", "(2018 Remaster)",    *)
(*   "(Expanded Edition)", "(2007 Stereo Mix)", "(Single Version)".         *)
(***************************************************************************)
EXTENDS Integers, Sequences, FiniteSets, TLC

\* ------------------------------------------------------------------ bounds
\* page size of user.getRecentTracks (limit=200 in the source, scaled down)
limit == 2
\* largest totalPages value the remote may report
MaxTotalPages == 3
\* longest base title, in tokens, handed to the cleaners
MaxBaseLen == 2

\* ------------------------------------------------------- program constants
\* HAVING COUNT(DISTINCT artist) >= 3
CompilationThreshold == 3

NULL == "NULL"
VariousArtists == "Various Artists"

\* ---------------------------------------------------------- title cleaning
Pat(sufs, prev) == [sufs |-> sufs, prev |-> prev]

\* the rules for the bare word come before the rules for year and word
REMASTER_PATTERNS_LooseFirst ==
    << Pat({<<"-", "Rem">>, <<"-", "Rem", "Y">>}, TRUE),
       Pat({<<"Rem">>, <<"Rem", "Y">>}, TRUE),
       Pat({<<"(Rem)">>, <<"(RemY)">>}, FALSE),
       Pat({<<"-", "Y", "Rem">>}, TRUE),
       Pat({<<"Y", "Rem">>}, TRUE),
       Pat({<<"(YRem)">>}, FALSE),
       Pat({<<"-", "Exp">>}, TRUE),
       Pat({<<"Exp">>}, TRUE),
       Pat({<<"(Exp)">>}, FALSE),
       Pat({<<"-", "Y", "SMix">>, <<"-", "Y", "Mix">>, <<"-", "Y", "Ver">>}, TRUE),
       Pat({<<"(YMix)">>}, TRUE),
       Pat({<<"Y", "SMix">>, <<"Y", "Mix">>, <<"Y", "Ver">>}, TRUE),
       Pat({<<"-", "SVer">>, <<"-", "Mix">>}, TRUE),
       Pat({<<"(Mix)">>}, FALSE) >>

\* _REMASTER_PATTERNS, in the order of the list.  sufs: the token suffixes the
\* pattern matches at the end of the title; prev: the pattern starts with
\* mandatory whitespace (" -" or \s+), so a token must precede the match.
REMASTER_PATTERNS ==
    << Pat({<<"-", "Y", "Rem">>}, TRUE),
       Pat({<<"Y", "Rem">>}, TRUE),
       Pat({<<"(YRem)">>}, FALSE),
       Pat({<<"-", "Rem">>, <<"-", "Rem", "Y">>}, TRUE),
       Pat({<<"Rem">>, <<"Rem", "Y">>}, TRUE),
       Pat({<<"(Rem)">>, <<"(RemY)">>}, FALSE),
       Pat({<<"-", "Exp">>}, TRUE),
       Pat({<<"Exp">>}, TRUE),
       Pat({<<"(Exp)">>}, FALSE),
       Pat({<<"-", "Y", "SMix">>, <<"-", "Y", "Mix">>, <<"-", "Y", "Ver">>}, TRUE),
       Pat({<<"(YMix)">>}, TRUE),
       Pat({<<"Y", "SMix">>, <<"Y", "Mix">>, <<"Y", "Ver">>}, TRUE),
       Pat({<<"-", "SVer">>, <<"-", "Mix">>}, TRUE),
       Pat({<<"(Mix)">>}, FALSE) >>

EndsWith(t, s) ==
    /\ Len(s) <= Len(t)
    /\ SubSeq(t, Len(t) - Len(s) + 1, Len(t)) = s

\* re.sub(pattern, "", cleaned): the match, anchored at the end, is removed
\* together with the whitespace in front of it
re_sub(p, t) ==
    LET PatMatches(text, pat, s) ==
            /\ s \in pat.sufs
            /\ EndsWith(text, s)
            /\ (pat.prev => Len(text) > Len(s))
    IN  IF \E s \in p.sufs : PatMatches(t, p, s)
        THEN LET s == CHOOSE x \in p.sufs : PatMatches(t, p, x)
             IN  SubSeq(t, 1, Len(t) - Len(s))
        ELSE t

RECURSIVE ApplyPatterns(_, _, _)
ApplyPatterns(pats, i, t) ==
    IF i > Len(pats) THEN t
    ELSE ApplyPatterns(pats, i + 1, re_sub(pats[i], t))

clean_remastered_suffix(title) ==
    IF title = <<>> THEN title
    ELSE ApplyPatterns(REMASTER_PATTERNS, 1, title)

\* _REMASTER_PATTERNS of clean_remastered_db.py, in the order of the list: the
\* patterns that can match a title made of the tokens above (the others look for
\* ";", "/", "Digital", "24-Bit", "LP", "Platinum Collection" and the like).
\* "(Remastered)" and "(Remaster)" have a pattern each near the end of the list:
\* one title spells the word one way, so one of the two matches.
db_REMASTER_PATTERNS ==
    << Pat({<<"(YRem)">>}, FALSE),
       Pat({<<"-", "Y", "Rem", "Ver">>}, TRUE),
       Pat({<<"-", "Y", "Rem">>}, TRUE),
       Pat({<<"Y", "Rem">>}, TRUE),
       Pat({<<"-", "Rem">>, <<"-", "Rem", "-", "Y">>}, TRUE),
       Pat({<<"-", "Rem">>, <<"-", "Rem", "Y">>}, TRUE),
       Pat({<<"Rem">>, <<"Rem", "Y">>}, TRUE),
       Pat({<<"(Rem)">>}, FALSE),
       Pat({<<"(Rem)">>, <<"(RemY)">>}, FALSE),
       Pat({<<"-", "Exp">>}, TRUE),
       Pat({<<"Exp">>}, TRUE),
       Pat({<<"(Exp)">>}, FALSE),
       Pat({<<"-", "Y", "SMix">>, <<"-", "Y", "Mix">>, <<"-", "Y", "Ver">>}, TRUE),
       Pat({<<"(YMix)">>}, TRUE),
       Pat({<<"Y", "SMix">>, <<"Y", "Mix">>, <<"Y", "Ver">>}, TRUE),
       Pat({<<"-", "SVer">>, <<"-", "Mix">>}, TRUE),
       Pat({<<"(Mix)">>}, FALSE),
       Pat({<<"(Rem)">>}, FALSE),
       Pat({<<"(RemY)">>}, FALSE),
       Pat({<<"-", "Y", "Rem", "-", w>> : w \in {"W", "Y", "Rem", "Mix", "Ver"}}, TRUE) >>

\* the tokens that hold a closing bracket
Bracketed == {"(Rem)", "(RemY)", "(YRem)", "(Exp)", "(YMix)", "(Mix)"}

\* re.sub(r'\s*\(\s*[^)]*$', "", cleaned.strip()): the title is cut at the first
\* opening bracket that no closing bracket follows
fix_unbalanced(t) ==
    LET opening == {i \in 1..Len(t) :
                    /\ t[i] = "(W"
                    /\ \A j \in (i + 1)..Len(t) : t[j] \notin Bracketed}
    IN  IF opening = {} THEN t
        ELSE SubSeq(t, 1, (CHOOSE i \in opening : \A j \in opening : i <= j) - 1)

\* clean_remastered_suffix of clean_remastered_db.py
db_clean_remastered_suffix(title) ==
    IF title = <<>> THEN title
    ELSE fix_unbalanced(ApplyPatterns(db_REMASTER_PATTERNS, 1, title))


\* ------------------------------------------------------------------- state
VARIABLES
    history,              \* the plays the user makes, in the order they reach Last.fm
    nRemote,              \* how many plays of history the remote holds so far
    scrobble,             \* table scrobble
    album_art,            \* table album_art
    pc,                   \* where sync_lastfm is: idle, fetch, art, post
    from_ts, page,        \* locals of sync_lastfm
    total_new_scrobbles,
    total_changes,        \* conn.total_changes of the run's connection
    album_batch,          \* album_art rows of the page, between the two commits
    total_pages,          \* recenttracks.@attr.totalPages of the page fetched last
    n_batch,              \* len(scrobble_batch) of the page fetched last
    inserted,             \* rows the last executemany really inserted
    outcome,              \* of the current or last run: none, running, completed, aborted
    run,                  \* the running run: the remote history is as it was at Init
                          \* (stable), every page count read was the true one (honest)
    lastDone,             \* the run that ended last: its outcome, whether the remote
                          \* history is still as it was at its Init, its honest, and
                          \* the from_ts of an aborted run
    upserted,             \* per album_art key and column: the last non-null value upserted
    albums_to_fetch,      \* backfill(): the albums still to process
    commits,              \* the tables scrobble that were committed while the call of
                          \* get_album_tracks in progress ran its queries
    title,                \* a title handed to the cleaners: a base and an annotation
    cleaned,              \* what each clean_remastered_suffix returned for it
    album_tracks,         \* table album_tracks: the official tracklists
    results,              \* the last call of get_album_tracks and what it returned
    wikipedia_url,        \* column wikipedia_url of album_art, per row key
    covers,               \* the cover files cached under static/covers
    view,                 \* where artist_album_detail is, and its locals
    searches,             \* the albums for which fetch_album_wikipedia_url returned 'N/A'
    session,              \* where clean_mismatches.main is, and its locals
    reviewed              \* the answers the operator has given in this session

vars == << history, nRemote, scrobble, album_art, pc, from_ts, page, total_new_scrobbles,
           total_changes, album_batch, total_pages, n_batch, inserted, outcome,
           run, lastDone, upserted, albums_to_fetch, commits, title, cleaned,
           album_tracks, results, wikipedia_url, covers, view, searches,
           session, reviewed >>

storeVars == << history, nRemote, scrobble, album_art, upserted, albums_to_fetch,
               commits >>
titleVars == << title, cleaned >>
tracksVars == << album_tracks, results >>
viewVars == << wikipedia_url, covers, view, searches >>
cleanVars == << session, reviewed >>

\* the state of the tools and views that are not part of sync_lastfm
compVars == << titleVars, tracksVars, viewVars, cleanVars >>

syncVars == << pc, from_ts, page, total_new_scrobbles, total_changes, album_batch,
               total_pages, n_batch, inserted, outcome, run, lastDone >>


\* ----------------------------------------------------------- remote history
Ev(uts, artist, artist_mbid, album, album_mbid, name, small, large) ==
    [nowplaying |-> FALSE, date |-> TRUE, has_name |-> TRUE, uts |-> uts,
     artist |-> artist, artist_mbid |-> artist_mbid,
     album |-> album, album_mbid |-> album_mbid,
     name |-> name, mbid |-> NULL,
     image_small |-> small, image_medium |-> NULL,
     image_large |-> large, image_xlarge |-> NULL]

NoAttr == <<>>
None == <<>>

Max(S) == CHOOSE x \in S : \A y \in S : y <= x
Min2(a, b) == IF a <= b THEN a ELSE b
Min(S) == CHOOSE x \in S : \A y \in S : x <= y

RECURSIVE Descending(_)
Descending(S) ==
    IF S = {} THEN <<>>
    ELSE LET m == Max(S) IN <<m>> \o Descending(S \ {m})

\* the plays user.getRecentTracks selects for "from": uts >= from, newest first
Listing(n, from) ==
    Descending({i \in 1..n : from = None \/ history[i].uts >= from[1]})

PageOf(listing, p) ==
    SubSeq(listing, (p - 1) * limit + 1, Min2(p * limit, Len(listing)))

\* what the remote may put in recenttracks.@attr.totalPages
TotalPagesReports == {<< k >> : k \in 0..MaxTotalPages} \cup {NoAttr}

\* data["recenttracks"] for one call of fetch_recent_tracks
fetch_recent_tracks(n, from, p, np, tp) ==
    LET \* the item of the track that is playing now: "@attr": {"nowplaying": "true"},
        \* no "date"
        NowPlayingItem ==
            [Ev(0, "A", NULL, <<"W">>, NULL, <<"W">>, "S0", NULL)
                EXCEPT !.nowplaying = TRUE, !.date = FALSE]
    IN  [track |-> (IF np THEN <<NowPlayingItem>> ELSE <<>>)
                     \o [k \in 1..Len(PageOf(Listing(n, from), p)) |->
                            history[PageOf(Listing(n, from), p)[k]]],
         totalPages |-> tp]

\* --------------------------------------------------------------- DB helpers
\* idx_scrobble_unique ON scrobble(uts, artist, album, track)
ScrobbleKey(r) == << r.uts, r.artist, r.album, r.track >>

\* PRIMARY KEY (artist, album) of album_art
ArtKey(r) == << r.artist, r.album >>

ArtColumns == {"album_mbid", "artist_mbid", "image_small", "image_medium",
               "image_large", "image_xlarge"}

\* SELECT COALESCE(MAX(uts), 0) FROM scrobble
get_last_uts(table) ==
    IF table = {} THEN 0 ELSE Max({r.uts : r \in table})

\* id INTEGER PRIMARY KEY: the rowid SQLite gives a new row
NextId(table) == IF table = {} THEN 1 ELSE Max({r.id : r \in table}) + 1

\* a plain INSERT on a table without the unique index
InsertAlways(table, row) == table \cup {[row EXCEPT !.id = NextId(table)]}

\* INSERT OR REPLACE: the row in conflict is deleted and the new one stored
InsertOrReplace(table, row) ==
    {r \in table : ScrobbleKey(r) /= ScrobbleKey(row)}
        \cup {[row EXCEPT !.id = NextId(table)]}

\* INSERT OR IGNORE INTO scrobble ... for one row
InsertOrIgnore(table, row) ==
    IF \E r \in table : ScrobbleKey(r) = ScrobbleKey(row)
    THEN table
    ELSE table \cup {[row EXCEPT !.id = NextId(table)]}

\* cur.executemany(INSERT OR IGNORE ..., scrobble_batch)
RECURSIVE executemany(_, _)
executemany(table, batch) ==
    IF batch = <<>> THEN table
    ELSE executemany(InsertOrIgnore(table, Head(batch)), Tail(batch))

COALESCE(x, y) == IF x /= NULL THEN x ELSE y

\* every column takes the new value, null or not
MergeReplace(old, a) == a

\* ON CONFLICT(artist, album) DO UPDATE SET col = COALESCE(excluded.col, album_art.col)
MergeArt(old, a) ==
    [c \in DOMAIN old |->
        IF c \in ArtColumns THEN COALESCE(a[c], old[c]) ELSE old[c]]

\* INSERT INTO album_art ... ON CONFLICT(artist, album) DO UPDATE ...
UpsertArt(table, a) ==
    IF \E r \in table : ArtKey(r) = ArtKey(a)
    THEN {IF ArtKey(r) = ArtKey(a) THEN MergeArt(r, a) ELSE r : r \in table}
    ELSE table \cup {a}

RECURSIVE UpsertAll(_, _)
UpsertAll(table, batch) ==
    IF batch = <<>> THEN table
    ELSE UpsertAll(UpsertArt(table, Head(batch)), Tail(batch))

NoteUpsert(seen, a) ==
    LET \* the record of what was upserted: per key and column the last non-null value
        NoArt == [c \in ArtColumns |-> NULL]
    IN  LET k == ArtKey(a)
            old == IF k \in DOMAIN seen THEN seen[k] ELSE NoArt
        IN  [x \in DOMAIN seen \cup {k} |->
                IF x = k
                THEN [c \in ArtColumns |-> IF a[c] /= NULL THEN a[c] ELSE old[c]]
                ELSE seen[x]]

RECURSIVE NoteAll(_, _)
NoteAll(seen, batch) ==
    IF batch = <<>> THEN seen
    ELSE NoteAll(NoteUpsert(seen, Head(batch)), Tail(batch))

\* ---------------------------------------------------------------- transform
\* the tuple appended to scrobble_batch for item t (id: not yet stored)
ScrobbleRow(t) ==
    LET \* uts = int(date_info["uts"]); if uts > 2_000_000_000: uts //= 1000
        NormalizeUts(uts) ==
            LET MsDivisor == 1000
            IN  LET \* "if somehow ms sneaks in, normalize to seconds"
                    MsThreshold == 2000000000
                IN  IF uts > MsThreshold THEN uts \div MsDivisor ELSE uts
    IN  [id |-> 0, artist |-> t.artist, artist_mbid |-> t.artist_mbid,
         album |-> clean_remastered_suffix(t.album), album_mbid |-> t.album_mbid,
         track |-> clean_remastered_suffix(t.name), track_mbid |-> t.mbid,
         uts |-> NormalizeUts(t.uts),
         album_artist |-> t.artist]

\* the dict appended to album_batch for item t
ArtRow(t) ==
    [artist |-> t.artist, album |-> clean_remastered_suffix(t.album),
     album_mbid |-> t.album_mbid, artist_mbid |-> t.artist_mbid,
     image_small |-> t.image_small, image_medium |-> t.image_medium,
     image_large |-> t.image_large, image_xlarge |-> t.image_xlarge]

HasImage(a) ==
    \/ a.image_small /= NULL
    \/ a.image_medium /= NULL
    \/ a.image_large /= NULL
    \/ a.image_xlarge /= NULL

\* the for-loop's filter: "now playing" items and items without date are skipped
Completed(t) == ~t.nowplaying /\ t.date

RECURSIVE MapSeq(_, _)
MapSeq(s, kind) ==
    IF s = <<>> THEN <<>>
    ELSE << (IF kind = "scrobble" THEN ScrobbleRow(Head(s)) ELSE ArtRow(Head(s))) >>
         \o MapSeq(Tail(s), kind)

\* t["name"] raises KeyError for a completed item without "name"
RaisesKeyError(tracks) ==
    \E k \in 1..Len(tracks) : Completed(tracks[k]) /\ ~tracks[k].has_name

\* scrobble_batch.sort(key=lambda row: row[6]): a stable sort by uts
RECURSIVE InsertSorted(_, _)
InsertSorted(sorted, row) ==
    IF sorted = <<>> THEN << row >>
    ELSE IF Head(sorted).uts <= row.uts
         THEN << Head(sorted) >> \o InsertSorted(Tail(sorted), row)
         ELSE << row >> \o sorted

RECURSIVE SortByUts(_)

\* the batch is inserted as the remote listed it
Unsorted(batch) == batch

SortByUts(batch) ==
    IF batch = <<>> THEN <<>>
    ELSE InsertSorted(SortByUts(SubSeq(batch, 1, Len(batch) - 1)), batch[Len(batch)])

\* ---------------------------------------------------------------- post-pass
DistinctArtists(table, al) == {r.artist : r \in {x \in table : x.album = al}}

\* the same with HAVING COUNT(DISTINCT artist) >= 2
compilation_albums_pairs(table) ==
    {al \in {r.album : r \in table} :
        /\ al /= <<>>
        /\ Cardinality(DistinctArtists(table, al)) >= CompilationThreshold - 1}

\* SELECT album FROM scrobble WHERE album IS NOT NULL AND album != ''
\* GROUP BY album HAVING COUNT(DISTINCT artist) >= 3
compilation_albums(table) ==
    {al \in {r.album : r \in table} :
        /\ al /= <<>>
        /\ Cardinality(DistinctArtists(table, al)) >= CompilationThreshold}

\* the rows of the compilation albums are deleted
delete_compilation_albums(table) ==
    {r \in table : r.album \notin compilation_albums(table)}

\* UPDATE scrobble SET album_artist = 'Various Artists'
\* WHERE album IN (...) AND album_artist != 'Various Artists'
update_compilation_albums(table) ==
    IF compilation_albums(table) = {} THEN table
    ELSE {IF r.album \in compilation_albums(table) /\ r.album_artist /= VariousArtists
          THEN [r EXCEPT !.album_artist = VariousArtists]
          ELSE r : r \in table}


\* ------------------------------------------------------------- album.getInfo
\* what get_album_info may return for an album: None (error, unknown album) or
\* an album dict, reduced to the columns backfill() stores
AlbumInfos ==
    { [found |-> FALSE, album_mbid |-> NULL, image_small |-> NULL, image_large |-> NULL],
      [found |-> TRUE, album_mbid |-> NULL, image_small |-> NULL, image_large |-> NULL],
      [found |-> TRUE, album_mbid |-> "mb2", image_small |-> NULL, image_large |-> "L2"],
      [found |-> TRUE, album_mbid |-> NULL, image_small |-> "S3", image_large |-> NULL] }

Artists == << "A", "B", "C" >>
ArtistRank(a) == CHOOSE i \in 1..Len(Artists) : Artists[i] = a

\* SELECT DISTINCT s.artist, s.album FROM scrobble s LEFT JOIN album_art aa ...
\* WHERE s.album <> '' AND aa.artist IS NULL
AlbumsWithoutArt ==
    {k \in {<< r.artist, r.album >> : r \in scrobble} :
        /\ k[2] /= <<>>
        /\ ~\E a \in album_art : ArtKey(a) = k}

\* ORDER BY s.artist, s.album
RECURSIVE Ordered(_)
Ordered(S) ==
    IF S = {} THEN <<>>
    ELSE LET k == CHOOSE x \in S : \A y \in S : ArtistRank(x[1]) <= ArtistRank(y[1])
         IN  << k >> \o Ordered(S \ {k})

\* ------------------------------------------------------------------ actions
\* no run of sync_lastfm or backfill has begun
RunIdle ==
    /\ pc = "idle"
    /\ from_ts = None
    /\ page = 1
    /\ total_new_scrobbles = 0
    /\ total_changes = 0
    /\ album_batch = <<>>
    /\ total_pages = NoAttr
    /\ n_batch = 0
    /\ inserted = 0
    /\ outcome = "none"
    /\ run = [stable |-> TRUE, honest |-> TRUE]
    /\ lastDone = [outcome |-> "none", stable |-> TRUE, honest |-> TRUE, from |-> None]
    /\ albums_to_fetch = <<>>
    /\ commits = {}

InitStore ==
    /\ nRemote = 0
    /\ scrobble = {}
    /\ album_art = {}
    /\ upserted = << >>
    /\ RunIdle

\* no title has been handed to the cleaners
TitleIdle ==
    /\ title = [base |-> <<>>, suffix |-> <<>>]
    /\ cleaned = [sync |-> None, db |-> None]

\* no tracklist is stored and get_album_tracks has not been called
TracksIdle ==
    /\ album_tracks = {}
    /\ results = None

\* no album_art row has a wikipedia_url and no album page is being served
ViewIdle ==
    /\ wikipedia_url = << >>
    /\ covers = {}
    /\ view = [pc |-> "idle", artist |-> <<>>, album |-> <<>>, attempt |-> 0,
               last |-> "none", song_seen |-> FALSE, outcome |-> "none",
               url |-> None]
    /\ searches = {}

\* the cleaning tool is not running
CleanIdle ==
    /\ session = [pc |-> "idle", queue |-> <<>>, batch |-> 0, index |-> 0,
                  approved |-> <<>>, all_approved |-> <<>>,
                  before |-> [scrobble |-> {}, album_tracks |-> {}],
                  ended |-> "none"]
    /\ reviewed = <<>>

InitComp == TitleIdle /\ TracksIdle /\ ViewIdle /\ CleanIdle

Init ==
    LET \* recenttracks items as user.getRecentTracks returns them (artist, album and
        \* track name, MBIDs, images, date.uts), oldest first.  Two plays in one second,
        \* titles with one and with two decorative suffixes, an album played by three
        \* artists, plays without album, and a timestamp in milliseconds.
        Catalog ==
            << Ev(1700000001, "A", "ma", <<"W", "-", "Y", "Rem">>, "mb1", <<"W">>, NULL, "L1"),
               Ev(1700000002, "B", NULL, <<"W">>, NULL, <<"W", "(Rem)", "(Exp)">>, NULL, NULL),
               Ev(1700000002, "C", NULL, <<"W">>, NULL, <<"W">>, NULL, NULL),
               Ev(1700000003, "B", NULL, <<>>, NULL, <<"W">>, NULL, NULL),
               Ev(1700000003, "C", NULL, <<>>, NULL, <<"W", "W">>, NULL, NULL),
               Ev(2000000001, "A", NULL, <<"(Rem)">>, NULL, <<"W">>, NULL, NULL) >>
    IN  history = Catalog /\ InitStore /\ InitComp

InitArt ==
    LET \* Plays of one album whose items carry different images, and one of an album
        \* without images.
        ArtCatalog ==
            << Ev(1700000001, "A", "ma", <<"W", "-", "Y", "Rem">>, "mb1", <<"W">>, NULL, "L1"),
               Ev(1700000002, "A", NULL, <<"W">>, NULL, <<"W", "Rem">>, "S2", NULL),
               Ev(1700000003, "B", NULL, <<"W">>, NULL, <<"W">>, NULL, NULL) >>
    IN  history = ArtCatalog /\ InitStore /\ InitComp

\* the user plays a track and Last.fm records it
RemoteScrobble ==
    /\ nRemote < Len(history)
    /\ nRemote' = nRemote + 1
    /\ history' = history
    /\ run' = [run EXCEPT !.stable = FALSE]
    /\ lastDone' = [lastDone EXCEPT !.stable = FALSE]
    /\ UNCHANGED << scrobble, album_art, upserted, albums_to_fetch, commits, pc, from_ts, page,
                    total_new_scrobbles, total_changes, album_batch, total_pages,
                    n_batch, inserted, outcome >>
    /\ UNCHANGED compVars

\* sync_lastfm up to the loop: the resume boundary
SyncInit ==
    /\ pc = "idle"
    /\ from_ts' = IF get_last_uts(scrobble) = 0 THEN None
                  ELSE << get_last_uts(scrobble) + 1 >>
    /\ total_new_scrobbles' = 0
    /\ total_changes' = 0
    /\ page' = 1
    /\ pc' = "fetch"
    /\ outcome' = "running"
    /\ run' = [stable |-> TRUE, honest |-> TRUE]
    /\ UNCHANGED << history, nRemote, scrobble, album_art, upserted, albums_to_fetch, commits,
                    album_batch, total_pages, n_batch, inserted, lastDone >>
    /\ UNCHANGED compVars

\* conn.commit(): a call of get_album_tracks that is between its queries can
\* find the table as this commit leaves it
Noted(table) ==
    IF results = None THEN commits
    ELSE IF results.pc = "counting" THEN commits \cup {table}
    ELSE commits

\* the locals of a run that has ended
EndRun(how) ==
    /\ pc' = "idle"
    /\ outcome' = how
    /\ lastDone' = [outcome |-> how, stable |-> run.stable, honest |-> run.honest,
                    from |-> IF how = "aborted" THEN from_ts ELSE None]
    /\ from_ts' = None
    /\ page' = 1
    /\ total_new_scrobbles' = 0
    /\ total_changes' = 0
    /\ album_batch' = <<>>
    /\ total_pages' = NoAttr
    /\ n_batch' = 0
    /\ inserted' = 0
    /\ run' = run

\* the failure is swallowed and the run goes on to the post-pass
FetchFailContinue ==
    /\ pc = "fetch"
    /\ pc' = "post"
    /\ outcome' = "aborted"
    /\ UNCHANGED << history, nRemote, scrobble, album_art, upserted, albums_to_fetch, commits,
                    from_ts, page, total_new_scrobbles, total_changes, album_batch,
                    total_pages, n_batch, inserted, run, lastDone >>
    /\ UNCHANGED compVars

\* fetch_recent_tracks raises (raise_for_status, a network error, or "error" in
\* the body): the exception leaves sync_lastfm
FetchFail ==
    /\ pc = "fetch"
    /\ scrobble' = scrobble
    /\ EndRun("aborted")
    /\ UNCHANGED << history, nRemote, album_art, upserted, albums_to_fetch, commits >>
    /\ UNCHANGED compVars

\* the next page is fetched whatever total the page reported
PaginationUnbounded(tp) == pc' = "fetch" /\ page' = page + 1

\* attr.get("totalPages", page); if page >= total_pages: break; page += 1
Pagination(tp) ==
    LET tpInt == IF tp = NoAttr THEN page ELSE tp[1]
    IN  IF page >= tpInt
        THEN pc' = "post" /\ page' = page
        ELSE pc' = "fetch" /\ page' = page + 1

\* one turn of the loop up to the first commit: fetch, transform, sort, insert
FetchPage(np, tp) ==
    LET ScrobbleBatch(tracks) == MapSeq(SelectSeq(tracks, Completed), "scrobble")
    IN  LET \* album_batch; its sort by (artist, album, last_updated) is stable and
            \* last_updated is the same for the whole page, so rows of one key keep their order
            AlbumBatch(tracks) ==
                LET WithArt(t) ==
                        /\ Completed(t)
                        /\ clean_remastered_suffix(t.album) /= <<>>
                        /\ HasImage(ArtRow(t))
                IN  MapSeq(SelectSeq(tracks, WithArt), "art")
        IN  LET \* the page count of a listing of k plays
                TruePages(k) == (k + limit - 1) \div limit
            IN  /\ pc = "fetch"
                /\ ~RaisesKeyError(fetch_recent_tracks(nRemote, from_ts, page, np, tp).track)
                /\ LET data == fetch_recent_tracks(nRemote, from_ts, page, np, tp)
                       scrobble_batch == SortByUts(ScrobbleBatch(data.track))
                       arts == AlbumBatch(data.track)
                       stored == executemany(scrobble, scrobble_batch)
                       new == Cardinality(stored) - Cardinality(scrobble)
                   IN  /\ n_batch' = Len(scrobble_batch)
                       /\ total_pages' = data.totalPages
                       /\ run' = [run EXCEPT !.honest =
                                    @ /\ (IF tp = NoAttr THEN page ELSE tp[1])
                                           = TruePages(Len(Listing(nRemote, from_ts)))]
                       /\ IF scrobble_batch = <<>>
                          THEN /\ pc' = "post"
                               /\ UNCHANGED << scrobble, total_changes, total_new_scrobbles,
                                               album_batch, page, inserted >>
                          ELSE /\ scrobble' = stored
                               /\ inserted' = new
                               /\ total_changes' = total_changes + new
                               /\ total_new_scrobbles' = total_changes'
                               /\ album_batch' = arts
                               /\ IF arts /= <<>>
                                  THEN pc' = "art" /\ page' = page
                                  ELSE Pagination(data.totalPages)
                /\ commits' = Noted(scrobble')
                /\ UNCHANGED << history, nRemote, album_art, upserted, albums_to_fetch, from_ts,
                                outcome, lastDone >>
                /\ UNCHANGED compVars

\* the for-loop meets an item without "name": the KeyError leaves sync_lastfm
\* before anything of the page is inserted
ItemKeyError ==
    /\ pc = "fetch"
    /\ RaisesKeyError(fetch_recent_tracks(nRemote, from_ts, page, FALSE, NoAttr).track)
    /\ scrobble' = scrobble
    /\ EndRun("crashed")
    /\ UNCHANGED << history, nRemote, album_art, upserted, albums_to_fetch, commits >>
    /\ UNCHANGED compVars

\* the second commit of the turn: the album_art upserts, then the pagination
PersistArt ==
    /\ pc = "art"
    /\ album_art' = UpsertAll(album_art, album_batch)
    /\ upserted' = NoteAll(upserted, album_batch)
    /\ total_changes' = total_changes + Len(album_batch)
    /\ album_batch' = <<>>
    /\ Pagination(total_pages)
    /\ UNCHANGED << history, nRemote, scrobble, albums_to_fetch, commits, from_ts,
                    total_new_scrobbles,
                    total_pages, n_batch, inserted, outcome, run, lastDone >>
    /\ UNCHANGED compVars

\* after the loop: the compilation post-pass, conn.close()
PostPass ==
    /\ pc = "post"
    /\ scrobble' = IF total_new_scrobbles > 0
                   THEN update_compilation_albums(scrobble)
                   ELSE scrobble
    /\ commits' = Noted(scrobble')
    /\ EndRun("completed")
    /\ UNCHANGED << history, nRemote, album_art, upserted, albums_to_fetch >>
    /\ UNCHANGED compVars

\* backfill(): the list of albums without album art
BackfillStart ==
    /\ albums_to_fetch = <<>>
    /\ AlbumsWithoutArt /= {}
    /\ albums_to_fetch' = Ordered(AlbumsWithoutArt)
    /\ UNCHANGED << history, nRemote, scrobble, album_art, upserted, commits >>
    /\ UNCHANGED syncVars
    /\ UNCHANGED compVars

\* backfill(): one turn of its loop, for the album info the API returned
BackfillAlbum(info) ==
    /\ albums_to_fetch /= <<>>
    /\ LET k == Head(albums_to_fetch)
           a == [artist |-> k[1], album |-> k[2],
                 album_mbid |-> info.album_mbid, artist_mbid |-> NULL,
                 image_small |-> info.image_small, image_medium |-> NULL,
                 image_large |-> info.image_large, image_xlarge |-> NULL]
       IN  IF info.found /\ HasImage(a)
           THEN /\ album_art' = UpsertArt(album_art, a)
                /\ upserted' = NoteUpsert(upserted, a)
           ELSE UNCHANGED << album_art, upserted >>
    /\ albums_to_fetch' = Tail(albums_to_fetch)
    /\ UNCHANGED << history, nRemote, scrobble, commits >>
    /\ UNCHANGED syncVars
    /\ UNCHANGED compVars

\* sync_lastfm and the remote history
Next ==
    \/ RemoteScrobble
    \/ SyncInit
    \/ FetchFail
    \/ \E np \in BOOLEAN, tp \in TotalPagesReports : FetchPage(np, tp)
    \/ PersistArt
    \/ PostPass

Spec == Init /\ [][Next]_vars

\* a step of a run: the process is single-threaded and blocking, every call it
\* makes returns (requests.get has timeout=15) and the loop goes on
RunStep ==
    \/ FetchFail
    \/ \E np \in BOOLEAN, tp \in TotalPagesReports : FetchPage(np, tp)
    \/ PersistArt
    \/ PostPass

FairSpec == Spec /\ WF_vars(RunStep)

\* sync_lastfm together with the album-art backfill
NextArt ==
    \/ Next
    \/ BackfillStart
    \/ \E info \in AlbumInfos : BackfillAlbum(info)

SpecArt == InitArt /\ [][NextArt]_vars


\* sync_lastfm against a remote whose pages hold malformed items
InitMal ==
    LET \* Plays whose items come malformed: the second without "date", the fourth
        \* without "name".
        MalCatalog ==
            << Ev(1700000001, "A", NULL, <<"W">>, NULL, <<"W">>, NULL, "L1"),
               [Ev(1700000002, "A", NULL, <<"W">>, NULL, <<"W", "W">>, NULL, NULL)
                   EXCEPT !.date = FALSE],
               Ev(1700000003, "B", NULL, <<"W">>, NULL, <<"W">>, NULL, NULL),
               [Ev(1700000004, "B", NULL, <<"W">>, NULL, <<>>, NULL, NULL)
                   EXCEPT !.has_name = FALSE] >>
    IN  history = MalCatalog /\ InitStore /\ InitComp

NextMal ==
    \/ Next
    \/ ItemKeyError

SpecMal == InitMal /\ [][NextMal]_vars

\* ------------------------------------------------------- the title cleaners
Tokens == {"W", "-", "Y", "Rem", "Exp", "SMix", "Ver", "Mix", "SVer", "(W"}
              \cup Bracketed

InitTitle ==
    LET \* the titles of at most n tokens
        TitlesUpTo(n) == UNION {[1..k -> Tokens] : k \in 0..n}
    IN  LET \* the annotations a music service appends to a title
            Annotations ==
                { <<>>, <<"-", "Y", "Rem">>, <<"(Rem)">>, <<"-", "Rem", "Y">>,
                  <<"(Exp)">>, <<"-", "Y", "Rem", "Ver">> }
        IN  /\ history = <<>>
            /\ InitStore
            /\ title \in [base : TitlesUpTo(MaxBaseLen), suffix : Annotations]
            /\ cleaned = [sync |-> None, db |-> None]
            /\ TracksIdle /\ ViewIdle /\ CleanIdle

\* sync_lastfm cleans the album and track name of an item
CleanOnSync ==
    /\ cleaned.sync = None
    /\ cleaned' = [cleaned EXCEPT
                      !.sync = << clean_remastered_suffix(title.base \o title.suffix) >>]
    /\ UNCHANGED << storeVars, syncVars, title, tracksVars, viewVars, cleanVars >>

\* clean_scrobble_table cleans the album and track name of a stored row
CleanInDb ==
    /\ cleaned.db = None
    /\ cleaned' = [cleaned EXCEPT
                      !.db = << db_clean_remastered_suffix(title.base \o title.suffix) >>]
    /\ UNCHANGED << storeVars, syncVars, title, tracksVars, viewVars, cleanVars >>

NextTitle ==
    \/ CleanOnSync
    \/ CleanInDb

SpecTitle == InitTitle /\ [][NextTitle]_vars


\* ------------------------------------------- album pages: tracklist and plays
\* Album and track names are sequences of words here, spelled as they are
\* stored: "Main Theme - Remastered" is <<"Main", "Theme", "-", "Remastered">>.

\* what text.replace('/', ' ') leaves of a "/" between two words: one more space
Blank == ""

\* str.lower() of a word
lower(w) ==
    CASE w = "Intro" -> "intro"
      [] w = "Main" -> "main"
      [] w = "Theme" -> "theme"
      [] w = "Outro" -> "outro"
      [] w = "Remastered" -> "remastered"
      [] w = "(Remastered)" -> "(remastered)"
      [] w = "(Live)" -> "(live)"
      [] w = "Don't" -> "don't"
      [] w = "Don~t" -> "don~t"
      [] w = "OK" -> "ok"
      [] w = "Ok" -> "ok"
      [] w = "Computer" -> "computer"
      [] w = "(Deluxe)" -> "(deluxe)"
      [] w = "Calender" -> "calender"
      [] w = "In" -> "in"
      [] w = "Rainbows" -> "rainbows"
      [] w = "Radiohead" -> "radiohead"
      [] w = "(Radiohead" -> "(radiohead"
      [] w = "(Deluxe" -> "(deluxe"
      [] w = "Edition)" -> "edition)"
      [] w = "(Song)" -> "(song)"
      [] w = "Greatest" -> "greatest"
      [] w = "Hits" -> "hits"
      [] w = "Studio" -> "studio"
      [] w = "Kid" -> "kid"
      [] w = "A" -> "a"
      [] w = "Live" -> "live"
      [] w = "Untitled" -> "untitled"
      [] w = "Tour" -> "tour"
      [] OTHER -> w

\* the words of a name after re.sub(r'[\'".,:;!?(){}\[\]<>]+', '', text) and
\* typo_fixes; a word that is only a dash or a slash leaves no word
plain(w) ==
    CASE w = "-" -> <<>>
      [] w = "/" -> <<>>
      [] w = "(remastered)" -> << "remastered" >>
      [] w = "(live)" -> << "live" >>
      [] w = "(deluxe)" -> << "deluxe" >>
      [] w = "don't" -> << "dont" >>
      [] w = "don~t" -> << "don~t" >>
      [] w = "calender" -> << "calendar" >>
      [] OTHER -> << w >>

RECURSIVE Flatten(_)
Flatten(ss) == IF ss = <<>> THEN <<>> ELSE Head(ss) \o Flatten(Tail(ss))

\* _normalize_for_matching: the comparison key of an album name
normalize_for_matching(text) ==
    IF text = <<>> THEN <<>>
    ELSE Flatten([i \in 1..Len(text) |-> plain(lower(text[i]))])

\* for suffix in suffixes: if text.lower().endswith(suffix): text = text[:-len(suffix)]
\* (every suffix starts with a space, so a word or a space stands before it)
RECURSIVE StripSuffixes(_, _, _)
StripSuffixes(sufs, i, t) ==
    IF i > Len(sufs) THEN t
    ELSE StripSuffixes(sufs, i + 1,
            IF EndsWith(t, sufs[i]) /\ Len(t) > Len(sufs[i])
            THEN SubSeq(t, 1, Len(t) - Len(sufs[i]))
            ELSE t)

\* _normalize_track_name_for_matching: the comparison key of a track name
normalize_track_name_for_matching(text) ==
    LET \* suffixes of _normalize_track_name_for_matching, in the order of the list
        TrackSuffixes ==
            << <<"-", "single", "version">>, <<"(single", "version)">>,
               <<"-", "album", "version">>, <<"(album", "version)">>,
               <<"-", "original", "version">>, <<"(original", "version)">>,
               <<"-", "original", "mix">>, <<"(original", "mix)">>,
               <<"-", "radio", "edit">>, <<"(radio", "edit)">>,
               <<"-", "remastered">>, <<"(remastered)">>,
               <<"-", "remastered", "version">>, <<"(remastered", "version)">>,
               <<"-", "200">>, <<"(200">>,
               <<"-", "rem">>, <<"(rem)">>,
               <<"-", "remix">>, <<"(remix)">>,
               <<"-", "edit">>, <<"(edit)">> >>
    IN  LET \* quote_mapping: the typographic apostrophes become the straight one
            \* ("Don~t" is the word written with U+2019)
            quote_mapping(w) == IF w = "Don~t" THEN "Don't" ELSE w
        IN  LET NotBlank(w) == w /= Blank
            IN  IF text = <<>> THEN <<>>
                ELSE SelectSeq(
                        StripSuffixes(TrackSuffixes, 1,
                            [i \in 1..Len(text) |->
                                IF text[i] = "/" THEN Blank ELSE lower(quote_mapping(text[i]))]),
                        NotBlank)

\* date(uts, 'unixepoch', 'localtime'), as a day number
SecondsPerDay == 86400
date(uts) == uts \div SecondsPerDay

\* SELECT DISTINCT album FROM album_tracks WHERE artist = ?
album_track_albums(artist) ==
    {r.album : r \in {x \in album_tracks : x.artist = artist}}

\* the albums canonical_album can become: the rows come in no defined order and
\* the first whose key matches is taken; failing that, the album spelled alike
canonical_albums(artist, album_name) ==
    LET byKey == {a \in album_track_albums(artist) :
                     normalize_for_matching(a) = normalize_for_matching(album_name)}
    IN  IF byKey /= {} THEN byKey
        ELSE {a \in album_track_albums(artist) : a = album_name}

\* SELECT track_number, track FROM album_tracks ... ORDER BY track_number ASC
RECURSIVE ByTrackNumber(_)
ByTrackNumber(S) ==
    IF S = {} THEN <<>>
    ELSE LET m == CHOOSE x \in S : \A y \in S : x.track_number <= y.track_number
         IN  << m >> \o ByTrackNumber(S \ {m})

\* Step 3, on the table the query finds: the album asked for and every
\* scrobbled spelling of it
all_scrobble_albums(table, artist, album_name) ==
    {album_name} \cup
    {r.album : r \in {x \in table :
                         /\ x.album_artist = artist
                         /\ normalize_for_matching(x.album)
                               = normalize_for_matching(album_name)}}

\* matching_album_names: the album asked for and every scrobbled spelling of it
matching_album_names(artist, album_name) ==
    all_scrobble_albums(scrobble, artist, album_name)

\* Step 4, on the table the query finds: the rows the GROUP BY track, artist
\* query counts for the album names of Step 3
scrobbles_of(table, artist, names, range) ==
    LET \* "if start and end": the filter on the local date, when a range is asked for
        InRange(r, rg) ==
            rg = None \/ (date(r.uts) >= rg[1] /\ date(r.uts) <= rg[2])
    IN  {r \in table :
            /\ r.album_artist = artist
            /\ r.album \in names
            /\ InRange(r, range)}

\* the rows counted when both queries find the same table
pooled_scrobbles(artist, album_name, range) ==
    scrobbles_of(scrobble, artist, matching_album_names(artist, album_name), range)

\* scrobble_dict: under (comparison key of the track, artist) the plays of the
\* groups the query returned, here already summed
scrobble_dict(rows) ==
    LET keyed == {[id |-> r.id, artist |-> r.artist,
                   key |-> normalize_track_name_for_matching(r.track)] : r \in rows}
    IN  [k \in {<< r.key, r.artist >> : r \in keyed} |->
            Cardinality({r \in keyed : r.key = k[1] /\ r.artist = k[2]})]

\* the result row names the track by its comparison key
result_row_keyed(tr, artist, plays) ==
    [track_number |-> tr.track_number,
     track_name |-> normalize_track_name_for_matching(tr.track),
     track_artist |-> artist,
     plays |-> plays]

\* results.append({...})
result_row(tr, artist, plays) ==
    [track_number |-> tr.track_number,
     track_name |-> tr.track,
     track_artist |-> artist,
     plays |-> plays]

\* the rows the loop can append for the tracklist row tr: the plays of the album
\* artist if there are any, else those of the artist with the most plays (of
\* the first of them in scrobble_dict, whose order SQLite does not define)
result_rows(tr, dict, album_artist) ==
    LET \* sum(s["plays"] for s in scrobble_dict[(key, artist)])
        plays_under(counts, k, a) ==
            IF << k, a >> \in DOMAIN counts THEN counts[<< k, a >>] ELSE 0
    IN  LET \* the artists that have an entry of scrobble_dict under the key
            artists_under(counts, name) ==
                {k[2] : k \in {d \in DOMAIN counts : d[1] = name}}
        IN  LET key == normalize_track_name_for_matching(tr.track)
                others == artists_under(dict, key)
                most == Max({plays_under(dict, key, a) : a \in others})
            IN  IF plays_under(dict, key, album_artist) > 0
                THEN {result_row(tr, album_artist, plays_under(dict, key, album_artist))}
                ELSE IF others = {}
                THEN {result_row(tr, album_artist, 0)}
                ELSE {result_row(tr, a, most) :
                         a \in {x \in others : plays_under(dict, key, x) = most}}

RECURSIVE InsertByPlaysAscending(_, _)
RECURSIVE InsertByPlays(_, _)

\* plays ascending
InsertByPlaysAscending(sorted, row) ==
    IF sorted = <<>> THEN << row >>
    ELSE IF Head(sorted).plays <= row.plays
         THEN << Head(sorted) >> \o InsertByPlaysAscending(Tail(sorted), row)
         ELSE << row >> \o sorted

\* results.sort(key=lambda x: (-x["plays"], x["track_number"])): one step of the
\* stable sort
InsertByPlays(sorted, row) ==
    IF sorted = <<>> THEN << row >>
    ELSE IF \/ Head(sorted).plays > row.plays
            \/ /\ Head(sorted).plays = row.plays
               /\ Head(sorted).track_number <= row.track_number
         THEN << Head(sorted) >> \o InsertByPlays(Tail(sorted), row)
         ELSE << row >> \o sorted

RECURSIVE SortByPlays(_)
SortByPlays(rows) ==
    IF rows = <<>> THEN <<>>
    ELSE InsertByPlays(SortByPlays(SubSeq(rows, 1, Len(rows) - 1)), rows[Len(rows)])

\* every way to take one row from each of the sets of choices, in order
RECURSIVE Picks(_)
Picks(choices) ==
    IF choices = <<>> THEN { <<>> }
    ELSE {<< c >> \o rest : c \in Head(choices), rest \in Picks(Tail(choices))}

\* Step 5 of get_album_tracks: what it can return for the groups that Step 4
\* read, with the album it resolved
match_album_tracks(dict, album_artist_name, album_name, sort_by) ==
    LET canonicals == canonical_albums(album_artist_name, album_name)
    IN  IF canonicals = {}
        THEN {[canonical |-> None, rows |-> <<>>]}
        ELSE UNION {
            LET tracks == ByTrackNumber({x \in album_tracks :
                                            /\ x.artist = album_artist_name
                                            /\ x.album = canonical})
                choices == [i \in 1..Len(tracks) |->
                               result_rows(tracks[i], dict, album_artist_name)]
            IN  {[canonical |-> << canonical >>,
                  rows |-> IF sort_by = "plays" THEN SortByPlays(res) ELSE res] :
                    res \in Picks(choices)}
            : canonical \in canonicals}

\* get_album_tracks when nothing is committed between its queries
get_album_tracks(album_artist_name, album_name, range, sort_by) ==
    match_album_tracks(scrobble_dict(pooled_scrobbles(album_artist_name, album_name, range)),
                       album_artist_name, album_name, sort_by)


\* a row of scrobble as sync_lastfm and its post-pass leave it
Play(uts, artist, album, track, album_artist) ==
    [id |-> 0, artist |-> artist, artist_mbid |-> NULL, album |-> album,
     album_mbid |-> NULL, track |-> track, track_mbid |-> NULL, uts |-> uts,
     album_artist |-> album_artist]

\* Plays of a compilation on three days: tracks credited to the album artist and
\* to other artists, spelled as the tracklist spells them and otherwise, under
\* two spellings of the album; a play of another edition and one of an album of
\* the same name by another album artist.
TrackPlays ==
    << Play(1700000001, VariousArtists, <<"OK", "Computer">>, <<"intro">>,
            VariousArtists),
       Play(1700000002, VariousArtists, <<"Ok", "Computer">>,
            <<"Main", "Theme", "-", "Remastered">>, VariousArtists),
       Play(1700086401, "B", <<"OK", "Computer">>, <<"Intro">>, VariousArtists),
       Play(1700086402, "C", <<"OK", "Computer">>, <<"intro">>, VariousArtists),
       Play(1700172802, "B", <<"OK", "Computer", "(Deluxe)">>, <<"Intro">>,
            VariousArtists),
       Play(1700172803, "B", <<"OK", "Computer">>, <<"Outro">>, "B") >>

AlbumTrack(artist, album, n, track) ==
    [artist |-> artist, album |-> album, track |-> track, track_number |-> n]

\* the date ranges a page asks for: none, or the second and third day
Ranges == { None, << date(1700086401), date(1700172802) >> }

InitTracks ==
    LET \* what album_tracks can hold: nothing, the tracklist of the album, and also a
        \* tracklist stored under the other spelling of the album
        Tracklists ==
            LET one == { AlbumTrack(VariousArtists, <<"OK", "Computer">>, 1, <<"Intro">>),
                         AlbumTrack(VariousArtists, <<"OK", "Computer">>, 2, <<"Main", "Theme">>),
                         AlbumTrack(VariousArtists, <<"OK", "Computer">>, 3, <<"Outro">>) }
                other == { AlbumTrack(VariousArtists, <<"Ok", "Computer">>, 1, <<"Main", "Theme">>),
                           AlbumTrack(VariousArtists, <<"Ok", "Computer">>, 2, <<"Don~t">>) }
            IN  { {}, one, one \cup other }
    IN  /\ history = <<>>
        /\ InitStore
        /\ TitleIdle /\ ViewIdle /\ CleanIdle
        /\ album_tracks \in Tracklists
        /\ results = None

\* a play is stored, in the order of the plays
StorePlay(k) ==
    /\ \A r \in scrobble : r.uts < TrackPlays[k].uts
    /\ scrobble' = InsertOrIgnore(scrobble, TrackPlays[k])
    /\ results' = None
    /\ UNCHANGED << history, nRemote, album_art, upserted, albums_to_fetch, commits >>
    /\ UNCHANGED << syncVars, titleVars, album_tracks, viewVars, cleanVars >>

\* a page calls get_album_tracks
GetAlbumTracks(album_artist_name, album_name, range, sort_by) ==
    /\ \E res \in get_album_tracks(album_artist_name, album_name, range, sort_by) :
          results' = [artist |-> album_artist_name, album |-> album_name,
                      range |-> range, sort_by |-> sort_by,
                      canonical |-> res.canonical, rows |-> res.rows]
    /\ UNCHANGED << storeVars, syncVars, titleVars, album_tracks, viewVars, cleanVars >>

\* the album pages asked for: the album under its two spellings, another
\* edition of it, and the album of the same name by another album artist
Pages ==
    { << VariousArtists, <<"OK", "Computer">> >>,
      << VariousArtists, <<"Ok", "Computer">> >>,
      << VariousArtists, <<"OK", "Computer", "(Deluxe)">> >>,
      << "B", <<"OK", "Computer">> >> }

NextTracks ==
    \/ \E k \in 1..Len(TrackPlays) : StorePlay(k)
    \/ \E pg \in Pages, range \in Ranges, sort_by \in {"tracklist", "plays"} :
          GetAlbumTracks(pg[1], pg[2], range, sort_by)

SpecTracks == InitTracks /\ [][NextTracks]_vars


\* ------------------------------- an album page served while sync_lastfm runs
\* get_album_tracks opens its own connection and runs its queries one by one,
\* outside any transaction: each finds the table as the last commit left it.

InitConc ==
    LET \* three plays of one album, the first with a cover image, the third under
        \* another spelling of its name
        ConcCatalog ==
            << Ev(1700000001, "B", NULL, <<"OK", "Computer">>, NULL, <<"Intro">>, NULL, "L1"),
               Ev(1700000002, "B", NULL, <<"OK", "Computer">>, NULL, <<"Intro">>, NULL, NULL),
               Ev(1700000003, "B", NULL, <<"Ok", "Computer">>, NULL, <<"Intro">>, NULL, NULL) >>
    IN  /\ history = ConcCatalog
        /\ InitStore
        /\ TitleIdle /\ ViewIdle /\ CleanIdle
        /\ album_tracks = { AlbumTrack("B", <<"OK", "Computer">>, 1, <<"Intro">>) }
        /\ results = None

\* get_album_tracks up to Step 3: the tracklist, and the album names in scrobble
ReadAlbums(album_artist_name, album_name, range, sort_by) ==
    /\ IF results = None THEN TRUE ELSE results.pc = "done"
    /\ results' = [pc |-> IF canonical_albums(album_artist_name, album_name) = {}
                          THEN "done" ELSE "counting",
                   artist |-> album_artist_name, album |-> album_name,
                   range |-> range, sort_by |-> sort_by,
                   names |-> matching_album_names(album_artist_name, album_name),
                   canonical |-> None, rows |-> <<>>]
    /\ commits' = {scrobble}
    /\ UNCHANGED << history, nRemote, scrobble, album_art, upserted, albums_to_fetch >>
    /\ UNCHANGED << syncVars, titleVars, album_tracks, viewVars, cleanVars >>

\* Step 4 and Step 5: the play counts of those album names, and the result
ReadCounts ==
    /\ IF results = None THEN FALSE ELSE results.pc = "counting"
    /\ \E res \in match_album_tracks(
                     scrobble_dict(scrobbles_of(scrobble, results.artist, results.names,
                                                results.range)),
                     results.artist, results.album, results.sort_by) :
          results' = [results EXCEPT !.pc = "done",
                                     !.canonical = res.canonical, !.rows = res.rows]
    /\ UNCHANGED << storeVars, syncVars, titleVars, album_tracks, viewVars, cleanVars >>

NextConc ==
    \/ Next
    \/ \E album_name \in { <<"OK", "Computer">>, <<"Ok", "Computer">> } :
          ReadAlbums("B", album_name, None, "tracklist")
    \/ ReadCounts

SpecConc == InitConc /\ [][NextConc]_vars


\* ------------------------------------------- album pages: the Wikipedia link
\* Page titles, snippets and album names are sequences of words, as above.

\* needle in haystack, of one text in another
Contains(haystack, needle) ==
    \E i \in 0..(Len(haystack) - Len(needle)) :
       SubSeq(haystack, i + 1, i + Len(needle)) = needle

\* haystack.startswith(needle)
StartsWith(haystack, needle) ==
    /\ Len(needle) <= Len(haystack)
    /\ SubSeq(haystack, 1, Len(needle)) = needle

Words(text) == {text[i] : i \in 1..Len(text)}

\* _normalize_for_comparison
normalize_for_comparison(text) ==
    LET \* what _normalize_for_comparison leaves of the lowercased word w at position i:
        \* " (album)", " album", "(album)", "(song)" and " song" are cut out, then the
        \* punctuation goes
        comparable(w, i) ==
            CASE w \in {"(album)", "(song)"} -> <<>>
              [] w \in {"album", "song", "song)"} /\ i > 1 -> <<>>
              [] w = "song)" -> << "song" >>
              [] w = "-" -> <<>>
              [] w = "(radiohead" -> << "radiohead" >>
              [] w = "(deluxe" -> << "deluxe" >>
              [] w = "edition)" -> << "edition" >>
              [] OTHER -> << w >>
    IN  IF text = <<>> THEN <<>>
        ELSE Flatten([i \in 1..Len(text) |-> comparable(lower(text[i]), i)])

\* no title is taken for a song page
is_song_page_never(page_title) == FALSE

\* if "(song)" in title
is_song_page(page_title) == "(song)" \in Words(page_title)

\* _score_match
score_match(page_title, snippet, normalized_artist, normalized_album) ==
    LET \* len(w) > 2 for the words of the album names
        LongWord(w) == w \notin {"in", "a", "ok"}
    IN  LET normalized_title == normalize_for_comparison(page_title)
            album_name_in_title == Contains(normalized_title, normalized_album)
            artist_in_title == Contains(normalized_title, normalized_artist)
            tagged == "(album)" \in Words(page_title)
            album_words == {w \in Words(normalized_album) : LongWord(w)}
            album_word_matches == Cardinality(album_words \cap Words(normalized_title))
            greatest == \E i \in 2..(Len(normalized_title) - 1) :
                           normalized_title[i] = "greatest"
            score ==
                (IF album_name_in_title
                 THEN 50 + (IF StartsWith(normalized_title, normalized_album) THEN 10 ELSE 0)
                 ELSE 0)
              + (IF page_title /= <<>> /\ page_title[Len(page_title)] = "(album)" THEN 40
                 ELSE IF tagged THEN 20 ELSE 0)
              + (IF artist_in_title THEN 30 ELSE 0)
              + (IF "album" \in {lower(w) : w \in Words(snippet)} /\ ~tagged THEN 20 ELSE 0)
              + (IF album_word_matches > 0 THEN Min2(10, album_word_matches * 3) ELSE 0)
              - (IF tagged /\ ~album_name_in_title /\ ~greatest THEN 30 ELSE 0)
              - (IF /\ ~tagged /\ ~artist_in_title
                    /\ normalized_title /= normalized_album
                    /\ ~(Len(normalized_album) >= 3 /\ album_name_in_title)
                 THEN 40 ELSE 0)
        IN  IF is_song_page(page_title) THEN 0 - 1000
            ELSE IF score < 0 THEN 0 ELSE score

\* f"https://{lang}.wikipedia.org/wiki/{quote(best_match.replace(' ', '_'))}":
\* the language and the words of the title, joined by "_"
PageUrl(lang, best_match) == << lang >> \o best_match

\* "for result in search_results": the best score so far and its title
RECURSIVE best_of(_, _, _, _, _)
best_of(search_results, i, best, normalized_artist, normalized_album) ==
    IF i > Len(search_results) THEN best
    ELSE LET result == search_results[i]
             score == score_match(result.title, result.snippet,
                                  normalized_artist, normalized_album)
         IN  best_of(search_results, i + 1,
                     IF result.title /= <<>> /\ score > best.score
                     THEN [score |-> score, match |-> result.title]
                     ELSE best,
                     normalized_artist, normalized_album)

\* the answers requests.get and response.json() can give: a RequestException, a
\* status other than 200, a body that is not JSON, JSON without "query" or
\* "search", JSON null where an object is expected, and a list of results
FailureKinds == {"transport", "status", "invalid", "missing", "null"}

\* _search_wikipedia: whether it raises, and the URL or None it returns.  Of the
\* failures only "null" is not caught: "query" in None is a TypeError, and the
\* except clause names RequestException, KeyError and ValueError.
search_wikipedia(response, artist_name, album_name, cleaned_album, lang) ==
    IF response.kind = "null" THEN [raised |-> TRUE, url |-> None]
    ELSE IF response.kind \in FailureKinds \/ response.search = <<>>
    THEN [raised |-> FALSE, url |-> None]
    ELSE LET best == best_of(response.search, 1, [score |-> 0 - 1, match |-> None],
                             normalize_for_comparison(artist_name),
                             normalize_for_comparison(
                                IF cleaned_album /= <<>> THEN cleaned_album
                                ELSE album_name))
         IN  [raised |-> FALSE,
              url |-> IF best.score >= 20 /\ best.match /= None
                      THEN PageUrl(lang, best.match) ELSE None]

\* cleaned_album: the first suffix the album name ends with is cut off
strip_edition(album_name) ==
    LET \* edition_suffixes, each after a space
        edition_suffixes ==
            << <<"(Standard", "Edition)">>, <<"(Deluxe", "Edition)">>,
               <<"(Expanded", "Edition)">>, <<"(Collector's", "Edition)">>,
               <<"(Limited", "Edition)">>, <<"(Special", "Edition)">>,
               <<"(Premium", "Edition)">>, <<"(Bonus", "Track", "Edition)">>,
               <<"(Bonus", "Track", "Version)">>, <<"(Remastered)">>, <<"(Remaster)">>,
               <<"-", "Remastered">>, <<"-", "Remaster">>, <<"(Deluxe", "Version)">>,
               <<"(Explicit", "Version)">>, <<"(Clean", "Version)">>,
               <<"(Original", "Album)">>, <<"-", "Original", "Album">> >>
    IN  LET hits == {i \in 1..Len(edition_suffixes) :
                        /\ EndsWith(album_name, edition_suffixes[i])
                        /\ Len(album_name) > Len(edition_suffixes[i])}
        IN  IF hits = {} THEN album_name
            ELSE SubSeq(album_name, 1,
                        Len(album_name) - Len(edition_suffixes[Min(hits)]))

\* the queries of fetch_album_wikipedia_url in the order they are tried; the
\* fifth of each language is made with the album name as it is stored
Templates ==
    << [lang |-> "en", query |-> "\"album\" (album) artist", original |-> FALSE],
       [lang |-> "en", query |-> "\"album\" artist", original |-> FALSE],
       [lang |-> "en", query |-> "album (album) artist", original |-> FALSE],
       [lang |-> "en", query |-> "\"album\" (album)", original |-> FALSE],
       [lang |-> "en", query |-> "\"album\" (album) artist", original |-> TRUE],
       [lang |-> "pl", query |-> "\"album\" (album) artist", original |-> FALSE],
       [lang |-> "pl", query |-> "\"album\" artist", original |-> FALSE],
       [lang |-> "pl", query |-> "album (album) artist", original |-> FALSE],
       [lang |-> "pl", query |-> "\"album\" (album)", original |-> FALSE],
       [lang |-> "pl", query |-> "\"album\" (album) artist", original |-> TRUE] >>

\* every query in turn, whether or not cleaning changed the name
every_template(k, album_name) ==
    IF k < Len(Templates) THEN k + 1 ELSE 0

\* the query tried after query k is left without a match, 0 when there is none:
\* those with the stored name are tried only if cleaning changed the name
next_template(k, album_name) ==
    LET later == {j \in (k + 1)..Len(Templates) :
                     Templates[j].original => strip_edition(album_name) /= album_name}
    IN  IF later = {} THEN 0 ELSE Min(later)

\* SELECT COUNT(*) FROM scrobble WHERE album_artist = ? AND album = ?
get_album_total_plays(album_artist_name, album_name) ==
    Cardinality({r \in scrobble :
                    r.album_artist = album_artist_name /\ r.album = album_name})

album_tracks_exist(album_artist_name, album_name) ==
    \E x \in album_tracks : x.artist = album_artist_name /\ x.album = album_name

\* INSERT OR REPLACE INTO album_tracks, for an album that has no row yet
upsert_album_tracks(album_artist_name, album_name, tracks) ==
    album_tracks \cup {AlbumTrack(album_artist_name, album_name,
                                  tracks[i].track_number, tracks[i].track) :
                          i \in 1..Len(tracks)}

\* ensure_album_art_cached: the covers after it, the download working or not
ensure_album_art_cached(album_artist_name, album_name, downloaded) ==
    LET art == {a \in album_art : ArtKey(a) = << album_artist_name, album_name >>}
        art_row == CHOOSE a \in art : TRUE
        cache_key == IF art_row.album_mbid /= NULL THEN art_row.album_mbid
                     ELSE << album_artist_name, album_name >>
    IN  IF art = {} THEN covers
        ELSE IF art_row.image_xlarge = NULL THEN covers
        ELSE IF downloaded THEN covers \cup {cache_key}
        ELSE covers

\* SELECT wikipedia_url FROM album_art WHERE artist = ? AND album = ?:
\* None when there is no row or the column is empty
get_album_wikipedia_url(urls, album_artist_name, album_name) ==
    IF << album_artist_name, album_name >> \in DOMAIN urls
    THEN urls[<< album_artist_name, album_name >>]
    ELSE None

\* UPDATE album_art SET wikipedia_url = ? WHERE artist = ? AND album = ?
set_album_wikipedia_url(urls, album_artist_name, album_name, url) ==
    [k \in DOMAIN urls |->
        IF k = << album_artist_name, album_name >> THEN url ELSE urls[k]]

NotFound == << "N/A" >>

Radiohead == <<"Radiohead">>
InRainbows == <<"In", "Rainbows">>
InRainbowsDeluxe == <<"In", "Rainbows", "(Deluxe", "Edition)">>

\* the album pages that are asked for: an album with cover art, an edition of
\* it that was played but has no album_art row (the remote gave no image for
\* it), and an album without plays
AlbumPages ==
    { << Radiohead, InRainbows >>, << Radiohead, InRainbowsDeluxe >>,
      << Radiohead, <<"Greatest", "Hits">> >> }

\* what fetch_album_tracklist_lastfm can return: nothing, or the tracklist
Fetched ==
    { <<>>, << [track |-> <<"Intro">>, track_number |-> 1],
               [track |-> <<"Outro">>, track_number |-> 2] >> }

\* the responses: every failure, and every list of up to two results
Responses ==
    LET \* the results Wikipedia can list: the page of the album, a song page of the
        \* same name, the page of the artist, a page that shares a word, a song page
        \* named after the artist, a result without title
        Candidates ==
            { [title |-> <<"In", "Rainbows">>, snippet |-> <<"Studio", "album">>],
              [title |-> <<"In", "Rainbows", "(song)">>, snippet |-> <<"album">>],
              [title |-> <<"Radiohead">>, snippet |-> <<>>],
              [title |-> <<"Rainbows">>, snippet |-> <<>>],
              [title |-> <<"In", "Rainbows", "(Radiohead", "song)">>, snippet |-> <<>>],
              [title |-> <<>>, snippet |-> <<>>] }
    IN  {[kind |-> k, search |-> <<>>] : k \in FailureKinds}
           \cup {[kind |-> "results", search |-> <<>>]}
           \cup {[kind |-> "results", search |-> << c >>] : c \in Candidates}
           \cup {[kind |-> "results", search |-> << c, d >>] : c, d \in Candidates}

InitView ==
    LET \* and the album_art rows they upserted
        ViewArt ==
            << [artist |-> Radiohead, album |-> InRainbows, album_mbid |-> NULL,
                artist_mbid |-> NULL, image_small |-> NULL, image_medium |-> NULL,
                image_large |-> NULL, image_xlarge |-> "xlarge.jpg"] >>
    IN  LET \* the plays stored by earlier runs of sync_lastfm
            ViewPlays ==
                << Play(1700000001, Radiohead, InRainbows, <<"Intro">>, Radiohead),
                   Play(1700000002, Radiohead, InRainbowsDeluxe, <<"Intro">>, Radiohead) >>
        IN  /\ history = <<>>
            /\ nRemote = 0
            /\ scrobble = executemany({}, ViewPlays)
            /\ album_art = UpsertAll({}, ViewArt)
            /\ upserted = NoteAll(<< >>, ViewArt)
            /\ RunIdle
            /\ TitleIdle /\ TracksIdle /\ CleanIdle
            /\ wikipedia_url = [k \in {ArtKey(a) : a \in album_art} |-> None]
            /\ covers = {}
            /\ view = [pc |-> "idle", artist |-> <<>>, album |-> <<>>, attempt |-> 0,
                       last |-> "none", song_seen |-> FALSE, outcome |-> "none",
                       url |-> None]
            /\ searches = {}

\* artist_album_detail up to the lookup of the Wikipedia link: 404 without
\* plays, the tracklist fetched if none is stored, the cover cached, and the
\* page rendered at once when album_art has a link (or 'N/A') for the album
DetailStart(artist_name, album_name, tracks, downloaded) ==
    LET stored == get_album_wikipedia_url(wikipedia_url, artist_name, album_name)
        served == [pc |-> "idle", artist |-> artist_name, album |-> album_name,
                   attempt |-> 0, last |-> "none", song_seen |-> FALSE,
                   outcome |-> "served", url |-> None]
    IN  /\ view.pc = "idle"
        /\ IF get_album_total_plays(artist_name, album_name) = 0
           THEN /\ view' = [served EXCEPT !.outcome = "404"]
                /\ UNCHANGED << album_tracks, covers >>
           ELSE /\ album_tracks' =
                      IF ~album_tracks_exist(artist_name, album_name) /\ tracks /= <<>>
                      THEN upsert_album_tracks(artist_name, album_name, tracks)
                      ELSE album_tracks
                /\ covers' = ensure_album_art_cached(artist_name, album_name, downloaded)
                /\ view' = IF stored /= None
                           THEN [served EXCEPT !.url = stored]
                           ELSE [served EXCEPT !.pc = "search", !.attempt = 1,
                                               !.outcome = "none"]
        /\ UNCHANGED << wikipedia_url, searches, results >>
        /\ UNCHANGED << storeVars, syncVars, titleVars, cleanVars >>

\* one _search_wikipedia call of fetch_album_wikipedia_url and what follows it:
\* the next query, or the end of the view with set_album_wikipedia_url
SearchAttempt(response) ==
    LET template == Templates[view.attempt]
        res == search_wikipedia(response, view.artist, view.album,
                                IF template.original THEN view.album
                                ELSE strip_edition(view.album),
                                template.lang)
        next == next_template(view.attempt, view.album)
        seen == [view EXCEPT !.last = response.kind,
                             !.song_seen = @ \/ \E i \in 1..Len(response.search) :
                                                   is_song_page(response.search[i].title)]
    IN  /\ view.pc = "search"
        /\ IF res.raised
           THEN /\ view' = [seen EXCEPT !.pc = "idle", !.outcome = "raised"]
                /\ UNCHANGED << wikipedia_url, searches >>
           ELSE IF res.url /= None
           THEN /\ view' = [seen EXCEPT !.pc = "idle", !.outcome = "served",
                                        !.url = res.url]
                /\ wikipedia_url' = set_album_wikipedia_url(wikipedia_url, view.artist,
                                                            view.album, res.url)
                /\ UNCHANGED searches
           ELSE IF next /= 0
           THEN /\ view' = [seen EXCEPT !.attempt = next]
                /\ UNCHANGED << wikipedia_url, searches >>
           ELSE /\ view' = [seen EXCEPT !.pc = "idle", !.outcome = "served",
                                        !.url = NotFound]
                /\ wikipedia_url' = set_album_wikipedia_url(wikipedia_url, view.artist,
                                                            view.album, NotFound)
                /\ searches' = searches \cup {<< view.artist, view.album >>}
        /\ UNCHANGED << covers, tracksVars >>
        /\ UNCHANGED << storeVars, syncVars, titleVars, cleanVars >>

NextView ==
    \/ \E pg \in AlbumPages, tracks \in Fetched, downloaded \in BOOLEAN :
          DetailStart(pg[1], pg[2], tracks, downloaded)
    \/ \E response \in Responses : SearchAttempt(response)

SpecView == InitView /\ [][NextView]_vars

\* the album page when Wikipedia lists pages that merely share the album's name
ScoreResponses ==
    LET \* titles that hold the album name, or a word of it, without "(album)" and
        \* without the artist, next to the page of the album itself
        Titles == { <<"In", "Rainbows", "Tour">>, <<"Live", "In", "Rainbows">>,
                    <<"Rainbows">>, <<"In", "Rainbows">> }
    IN  {[kind |-> "results", search |-> <<>>]}
           \cup {[kind |-> "results", search |-> << [title |-> t, snippet |-> s] >>] :
                    t \in Titles, s \in {<<>>, <<"Studio", "album">>}}

NextScore ==
    \/ \E pg \in AlbumPages, tracks \in Fetched, downloaded \in BOOLEAN :
          DetailStart(pg[1], pg[2], tracks, downloaded)
    \/ \E response \in ScoreResponses : SearchAttempt(response)

SpecScore == InitView /\ [][NextScore]_vars


\* ------------------------------------------------- the batch cleanup tool
\* clean_mismatches.py; names are sequences of words, as above.

Lowered(name) == [i \in 1..Len(name) |-> lower(name[i])]

\* the SUFFIX_PATTERNS the names below can match, with their place in the list
SUFFIX_PATTERNS ==
    << [at |-> 11, words |-> <<"(deluxe)">>],
       [at |-> 40, words |-> <<"(live)">>],
       [at |-> 41, words |-> <<"-", "live">>] >>

\* re.sub(pattern, '', name, flags=re.IGNORECASE)
RECURSIVE RemoveAll(_, _)
RemoveAll(name, p) ==
    IF name = <<>> THEN <<>>
    ELSE IF StartsWith(Lowered(name), p)
    THEN RemoveAll(SubSeq(name, Len(p) + 1, Len(name)), p)
    ELSE << Head(name) >> \o RemoveAll(Tail(name), p)

RECURSIVE RemoveEach(_, _, _)
RemoveEach(name, patterns, i) ==
    IF i > Len(patterns) THEN name
    ELSE RemoveEach(RemoveAll(name, patterns[i].words), patterns, i + 1)

InBrackets(w) == lower(w) \in {"(deluxe)", "(live)"}

RECURSIVE Dedupe(_, _)
Dedupe(name, i) ==
    IF i > Len(name) THEN <<>>
    ELSE IF i >= 2 /\ i < Len(name) /\ InBrackets(name[i])
            /\ lower(name[i]) = lower(name[i + 1])
    THEN << name[i] >> \o Dedupe(name, i + 2)
    ELSE << name[i] >> \o Dedupe(name, i + 1)

normalize_name(name) ==
    Dedupe(Dedupe(RemoveEach(name, SUFFIX_PATTERNS, 1), 1), 1)

get_similarity_type(s_name, a_name) ==
    LET \* "for pattern in SUFFIX_PATTERNS[:20]": longer has the suffix, shorter has not,
        \* and shorter + the suffix is longer
        SuffixOnly(longer, shorter) ==
            LET \* re.search(pattern, name, re.IGNORECASE): where the first match begins, 0 if none
                FirstMatch(name, p) ==
                    LET at == {i \in 1..(Len(name) - Len(p) + 1) :
                                  SubSeq(Lowered(name), i, i + Len(p) - 1) = p}
                    IN  IF at = {} THEN 0 ELSE Min(at)
            IN  \E k \in 1..Len(SUFFIX_PATTERNS) :
                   LET p == SUFFIX_PATTERNS[k].words
                       i == FirstMatch(longer, p)
                   IN  /\ SUFFIX_PATTERNS[k].at <= 20
                       /\ i > 1
                       /\ FirstMatch(shorter, p) = 0
                       /\ Lowered(shorter \o SubSeq(longer, i, i + Len(p) - 1)) = Lowered(longer)
    IN  LET \* DUPLICATE_SUFFIX_PATTERNS: a bracket after a space, twice in a row
            HasDuplicate(name) ==
                \E i \in 2..(Len(name) - 1) :
                   InBrackets(name[i]) /\ lower(name[i]) = lower(name[i + 1])
        IN  LET HasLive(name) == \E i \in 1..Len(name) : lower(name[i]) \in {"live", "(live)"}
            IN  IF SuffixOnly(a_name, s_name) THEN "album_tracks has suffix, scrobble cleaned"
                ELSE IF SuffixOnly(s_name, a_name) THEN "scrobble has suffix, album_tracks cleaned"
                ELSE IF HasDuplicate(a_name) THEN "duplicate suffix in album_tracks"
                ELSE IF HasDuplicate(s_name) THEN "duplicate suffix in scrobble"
                ELSE IF HasLive(a_name) /\ ~HasLive(s_name)
                        /\ Contains(Lowered(a_name), Lowered(s_name))
                THEN "live version in album_tracks"
                ELSE IF HasLive(s_name) /\ ~HasLive(a_name)
                        /\ Contains(Lowered(s_name), Lowered(a_name))
                THEN "live version in scrobble"
                ELSE IF Lowered(s_name) = Lowered(a_name) THEN "case difference"
                ELSE "other"

\* find_mismatches: album names of one artist, and track names of one album
\* stored alike in both tables, that differ and normalize to the same name
find_mismatches(scrobbles, tracklists) ==
    LET Mismatch(category, artist, album, s_name, a_name) ==
            [category |-> category, artist |-> artist, album |-> album,
             scrobble_name |-> s_name, album_tracks_name |-> a_name,
             normalized |-> normalize_name(s_name),
             type |-> get_similarity_type(s_name, a_name)]
    IN  LET pairs == {rx \in {r \in scrobbles : r.album /= <<>> /\ r.track /= <<>>}
                             \X {x \in tracklists : x.album /= <<>> /\ x.track /= <<>>} :
                         rx[1].artist = rx[2].artist}
        IN  {Mismatch("album", rx[1].artist, <<>>, rx[1].album, rx[2].album) :
                rx \in {rx \in pairs :
                           /\ rx[1].album /= rx[2].album
                           /\ normalize_name(rx[1].album) = normalize_name(rx[2].album)}}
            \cup
            {Mismatch("track", rx[1].artist, rx[1].album, rx[1].track, rx[2].track) :
                rx \in {rx \in pairs :
                           /\ rx[1].album = rx[2].album
                           /\ rx[1].track /= rx[2].track
                           /\ normalize_name(rx[1].track) = normalize_name(rx[2].track)}}

\* the lists a set can be appended into: find_mismatches walks dicts of sets
RECURSIVE Orders(_)
Orders(S) ==
    IF S = {} THEN { <<>> }
    ELSE UNION {{<< x >> \o rest : rest \in Orders(S \ {x})} : x \in S}

\* the batches of one category, one per type that occurs, in review order
RECURSIVE Batches(_, _, _)
Batches(found, category, i) ==
    LET \* the order of the batches: the three types main() takes first, then the
        \* others as sorted() orders them
        ReviewOrder ==
            << "album_tracks has suffix, scrobble cleaned", "duplicate suffix in album_tracks",
               "case difference", "duplicate suffix in scrobble",
               "live version in album_tracks", "live version in scrobble", "other",
               "remix version in album_tracks", "remix version in scrobble",
               "scrobble has suffix, album_tracks cleaned" >>
    IN  IF i > Len(ReviewOrder) THEN { <<>> }
        ELSE LET ms == {m \in found : m.category = category /\ m.type = ReviewOrder[i]}
             IN  IF ms = {} THEN Batches(found, category, i + 1)
                 ELSE {<< b >> \o rest : b \in Orders(ms),
                                         rest \in Batches(found, category, i + 1)}

\* the batches the menu choice leads through: albums, tracks, or both
Queues(found, choice) ==
    {(IF choice \in {"1", "3"} THEN albums ELSE <<>>)
        \o (IF choice \in {"2", "3"} THEN tracks ELSE <<>>) :
       albums \in Batches(found, "album", 1), tracks \in Batches(found, "track", 1)}

\* apply_changes: the album changes, then the track changes, one commit
RECURSIVE apply_changes(_, _)
apply_changes(tables, changes) ==
    LET \* the UPDATEs of apply_changes for one approved change
        apply_to_scrobble(table, change) ==
            IF change.action \notin {"y", "s"} THEN table
            ELSE LET new == IF change.action = "y" THEN change.normalized
                            ELSE change.scrobble_name
                 IN  {IF r.artist = change.artist
                         /\ (IF change.category = "album" THEN r.album = change.scrobble_name
                             ELSE r.album = change.album /\ r.track = change.scrobble_name)
                      THEN (IF change.category = "album" THEN [r EXCEPT !.album = new]
                            ELSE [r EXCEPT !.track = new])
                      ELSE r : r \in table}
    IN  LET apply_to_album_tracks(table, change) ==
                IF change.action \notin {"y", "a"} THEN table
                ELSE LET new == IF change.action = "y" THEN change.normalized
                                ELSE change.album_tracks_name
                     IN  {IF x.artist = change.artist
                             /\ (IF change.category = "album" THEN x.album = change.album_tracks_name
                                 ELSE x.album = change.album /\ x.track = change.album_tracks_name)
                          THEN (IF change.category = "album" THEN [x EXCEPT !.album = new]
                                ELSE [x EXCEPT !.track = new])
                          ELSE x : x \in table}
        IN  IF changes = <<>> THEN tables
            ELSE apply_changes([scrobble |-> apply_to_scrobble(tables.scrobble, Head(changes)),
                                album_tracks |-> apply_to_album_tracks(tables.album_tracks,
                                                                       Head(changes))],
                               Tail(changes))

\* the approved changes are applied whether or not the operator quit
should_apply_always(quit_without_saving, all_approved) == all_approved /= <<>>

\* "if quit_without_saving: ... elif all_approved: apply_changes(...)"
should_apply(quit_without_saving, all_approved) ==
    ~quit_without_saving /\ all_approved /= <<>>

InitClean ==
    LET \* the plays and tracklists the tool is run on: two albums whose tracklists are
        \* stored with "(Deluxe)", and two tracks of an album spelled with and without
        \* a live tag
        CleanPlays ==
            << Play(1700000001, Radiohead, <<"OK", "Computer">>, <<"Intro">>, Radiohead),
               Play(1700000002, Radiohead, <<"Kid", "A">>, <<"Outro", "-", "Live">>, Radiohead),
               Play(1700000003, Radiohead, <<"Kid", "A">>, <<"Intro">>, Radiohead) >>
    IN  LET CleanTracklists ==
                { AlbumTrack(Radiohead, <<"OK", "Computer", "(Deluxe)">>, 1, <<"Intro">>),
                  AlbumTrack(Radiohead, <<"Kid", "A">>, 1, <<"Outro">>),
                  AlbumTrack(Radiohead, <<"Kid", "A">>, 2, <<"Intro", "(Live)">>),
                  AlbumTrack(Radiohead, <<"Kid", "A", "(Deluxe)">>, 3, <<"Untitled">>) }
        IN  /\ history = <<>>
            /\ nRemote = 0
            /\ scrobble = executemany({}, CleanPlays)
            /\ album_art = {}
            /\ upserted = << >>
            /\ RunIdle
            /\ TitleIdle /\ ViewIdle /\ CleanIdle
            /\ album_tracks = CleanTracklists
            /\ results = None

\* the end of main(): the approved changes are applied, or nothing is
Finish(quit_without_saving, all_approved, answers) ==
    LET IsAlbumChange(change) == change.category = "album"
    IN  LET IsTrackChange(change) == change.category = "track"
        IN  LET applied == apply_changes([scrobble |-> scrobble, album_tracks |-> album_tracks],
                                         SelectSeq(all_approved, IsAlbumChange)
                                            \o SelectSeq(all_approved, IsTrackChange))
            IN  /\ IF should_apply(quit_without_saving, all_approved)
                   THEN /\ scrobble' = applied.scrobble
                        /\ album_tracks' = applied.album_tracks
                   ELSE UNCHANGED << scrobble, album_tracks >>
                /\ session' = [session EXCEPT
                                  !.pc = "idle", !.all_approved = all_approved,
                                  !.ended = IF quit_without_saving THEN "quit"
                                            ELSE IF all_approved /= <<>> THEN "applied"
                                            ELSE "nothing"]
                /\ reviewed' = answers

\* main() up to the menu: the scan; without mismatches the tool ends at once
StartSession ==
    /\ session.pc = "idle"
    /\ session' = [pc |-> IF find_mismatches(scrobble, album_tracks) = {}
                          THEN "idle" ELSE "menu",
                   queue |-> <<>>, batch |-> 0, index |-> 0,
                   approved |-> <<>>, all_approved |-> <<>>,
                   before |-> [scrobble |-> scrobble, album_tracks |-> album_tracks],
                   ended |-> IF find_mismatches(scrobble, album_tracks) = {}
                             THEN "clean" ELSE "none"]
    /\ reviewed' = <<>>
    /\ UNCHANGED << scrobble, album_tracks, results >>
    /\ UNCHANGED << history, nRemote, album_art, upserted, albums_to_fetch, commits >>
    /\ UNCHANGED << syncVars, titleVars, viewVars >>

\* the answer to "What would you like to clean?"
Menu(choice, queue) ==
    /\ session.pc = "menu"
    /\ IF choice = "q"
       THEN /\ session' = [session EXCEPT !.pc = "idle", !.ended = "menu quit"]
            /\ UNCHANGED << scrobble, album_tracks, reviewed >>
       ELSE /\ queue \in Queues(find_mismatches(scrobble, album_tracks), choice)
            /\ IF queue = <<>>
               THEN Finish(FALSE, <<>>, reviewed)
               ELSE /\ session' = [session EXCEPT !.pc = "review", !.queue = queue,
                                                  !.batch = 1, !.index = 1]
                    /\ UNCHANGED << scrobble, album_tracks, reviewed >>
    /\ UNCHANGED results
    /\ UNCHANGED << history, nRemote, album_art, upserted, albums_to_fetch, commits >>
    /\ UNCHANGED << syncVars, titleVars, viewVars >>

\* the answer to prompt_action() for the mismatch shown, and what follows it in
\* batch_review_mismatches and main()
Review(choice) ==
    LET \* {**mismatch, 'action': choice}
        Change(m, action) ==
            [f \in DOMAIN m \cup {"action"} |->
                IF f = "action" THEN action ELSE m[f]]
    IN  LET batch == session.queue[session.batch]
            mismatch == batch[session.index]
            answers == Append(reviewed, [mismatch |-> mismatch, answer |-> choice])
            approved == IF choice \in {"y", "s", "a"}
                        THEN Append(session.approved, Change(mismatch, choice))
                        ELSE session.approved
        IN  /\ session.pc = "review"
            /\ IF choice = "q"
               THEN IF session.approved /= <<>>
                    THEN /\ session' = [session EXCEPT !.pc = "save"]
                         /\ reviewed' = answers
                         /\ UNCHANGED << scrobble, album_tracks >>
                    ELSE Finish(TRUE, session.all_approved, answers)
               ELSE IF choice = "d"
               THEN Finish(FALSE, session.all_approved \o session.approved, answers)
               ELSE IF session.index < Len(batch)
               THEN /\ session' = [session EXCEPT !.index = @ + 1, !.approved = approved]
                    /\ reviewed' = answers
                    /\ UNCHANGED << scrobble, album_tracks >>
               ELSE IF session.batch < Len(session.queue)
               THEN /\ session' = [session EXCEPT !.batch = @ + 1, !.index = 1,
                                                  !.approved = <<>>,
                                                  !.all_approved = @ \o approved]
                    /\ reviewed' = answers
                    /\ UNCHANGED << scrobble, album_tracks >>
               ELSE Finish(FALSE, session.all_approved \o approved, answers)
        /\ UNCHANGED results
        /\ UNCHANGED << history, nRemote, album_art, upserted, albums_to_fetch, commits >>
        /\ UNCHANGED << syncVars, titleVars, viewVars >>

\* the answer to "Save before quitting? [y/N]"
Save(answer) ==
    /\ session.pc = "save"
    /\ IF answer = "y"
       THEN Finish(FALSE, session.all_approved \o session.approved, reviewed)
       ELSE Finish(TRUE, session.all_approved, reviewed)
    /\ UNCHANGED results
    /\ UNCHANGED << history, nRemote, album_art, upserted, albums_to_fetch, commits >>
    /\ UNCHANGED << syncVars, titleVars, viewVars >>

\* KeyboardInterrupt at a prompt: "Exiting without changes"
Interrupt ==
    /\ session.pc \in {"menu", "review", "save"}
    /\ session' = [session EXCEPT !.pc = "idle", !.ended = "interrupted"]
    /\ UNCHANGED << scrobble, album_tracks, results, reviewed >>
    /\ UNCHANGED << history, nRemote, album_art, upserted, albums_to_fetch, commits >>
    /\ UNCHANGED << syncVars, titleVars, viewVars >>

NextClean ==
    \/ StartSession
    \/ \E choice \in {"1", "2", "3", "q"} :
          \E queue \in Queues(find_mismatches(scrobble, album_tracks), choice) :
             Menu(choice, queue)
    \/ \E choice \in {"y", "s", "a", "n", "q", "d"} : Review(choice)
    \/ \E answer \in {"y", "n"} : Save(answer)
    \/ Interrupt

SpecClean == InitClean /\ [][NextClean]_vars

\* ------------------------------------------- the one-time album_art cleanup
\* clean_remastered_db.py; album names are made of the tokens of the title
\* cleaners.

\* the WHERE clause of clean_album_art_table: album LIKE '%Remaster%' OR ...,
\* for the tokens that hold one of its words
like_remaster(album) ==
    \E i \in 1..Len(album) :
       album[i] \in {"Rem", "(Rem)", "(RemY)", "(YRem)", "(Exp)", "SMix", "SVer", "(Mix)"}

\* clean_album_art_table on the rows its SELECT returned, in the order it
\* returned them: INSERT OR REPLACE of each row under its cleaned name, with the
\* ten columns the statement lists (wikipedia_url is not among them and gets its
\* default, NULL), then DELETE of the rows under their old names, one commit
clean_album_art_table(rows) ==
    LET moved == {i \in 1..Len(rows) :
                     db_clean_remastered_suffix(rows[i].album) /= rows[i].album}
        target(i) == << rows[i].artist, db_clean_remastered_suffix(rows[i].album) >>
    IN  LET targets == {target(i) : i \in moved}
            inserted_rows ==
                {[rows[Max({i \in moved : target(i) = k})] EXCEPT !.album = k[2]] :
                    k \in targets}
        IN  LET after_inserts ==
                    {r \in album_art : ArtKey(r) \notin targets} \cup inserted_rows
            IN  /\ rows \in Orders({r \in album_art : like_remaster(r.album)})
                /\ album_art' = {r \in after_inserts :
                                    ArtKey(r) \notin {ArtKey(rows[i]) : i \in moved}}
                /\ wikipedia_url' =
                      [k \in {ArtKey(r) : r \in album_art'} |->
                          IF k \in targets THEN None ELSE wikipedia_url[k]]
                /\ UNCHANGED << history, nRemote, scrobble, upserted, albums_to_fetch,
                                commits >>
                /\ UNCHANGED << covers, view, searches >>
                /\ UNCHANGED << syncVars, titleVars, tracksVars, cleanVars >>

InitDbClean ==
    LET \* an album_art row with two of its images and its wikipedia_url (None when
        \* the column is NULL)
        Art(album, small, xlarge, url) ==
            [row |-> [artist |-> <<"A">>, album |-> album, album_mbid |-> NULL,
                      artist_mbid |-> NULL, image_small |-> small,
                      image_medium |-> NULL, image_large |-> NULL,
                      image_xlarge |-> xlarge],
             url |-> url]
    IN  LET \* the rows an album can have: none, or one with any of its fields filled
            RowsOf(album, tag) ==
                { {} } \cup
                { {Art(album, small, xlarge, url)} :
                     small \in {NULL, "small" \o tag}, xlarge \in {NULL, "xlarge" \o tag},
                     url \in {None, NotFound, PageUrl("en", <<"W">>)} }
        IN  /\ history = <<>>
            /\ nRemote = 0
            /\ scrobble = {}
            /\ upserted = << >>
            /\ RunIdle
            /\ TitleIdle /\ TracksIdle /\ CleanIdle
            /\ covers = {}
            /\ view = [pc |-> "idle", artist |-> <<>>, album |-> <<>>, attempt |-> 0,
                       last |-> "none", song_seen |-> FALSE, outcome |-> "none",
                       url |-> None]
            /\ searches = {}
            /\ \E bare \in RowsOf(<<"W">>, ".jpg"),
                  bracket \in RowsOf(<<"W", "(Rem)">>, "_r.jpg"),
                  dashed \in {{}, {Art(<<"W", "-", "Rem">>, "small_d.jpg", NULL, NotFound)}} :
                  LET stored == bare \cup bracket \cup dashed
                  IN  /\ album_art = {a.row : a \in stored}
                      /\ wikipedia_url = [k \in {ArtKey(a.row) : a \in stored} |->
                                             (CHOOSE a \in stored : ArtKey(a.row) = k).url]

NextDbClean ==
    \E rows \in Orders({r \in album_art : like_remaster(r.album)}) :
       clean_album_art_table(rows)

SpecDbClean == InitDbClean /\ [][NextDbClean]_vars


\* =================================================================== claims
\* the row of play i of the history is stored
Stored(table, i) ==
    \E r \in table : ScrobbleKey(r) = ScrobbleKey(ScrobbleRow(history[i]))

ScrobbleUnique ==
    \A r1, r2 \in scrobble : ScrobbleKey(r1) = ScrobbleKey(r2) => r1 = r2

\* a turn of the loop that fetched its page
FetchStep == pc = "fetch" /\ nRemote' = nRemote /\ outcome' = "running"

\* C1: no two rows of scrobble share (uts, artist, album, track), in every state
\* of every sequence of completed and aborted runs; and a turn of the loop that
\* inserts rows whose key is stored raises nothing, keeps every stored row as it
\* is and adds rows of new keys only.
C1_UniqueEvents ==
    /\ []ScrobbleUnique
    /\ [][FetchStep =>
            /\ scrobble \subseteq scrobble'
            /\ \A r \in scrobble' \ scrobble :
                  ~\E x \in scrobble : ScrobbleKey(x) = ScrobbleKey(r)]_vars

\* a page whose batch held a row already stored: fewer rows inserted than sent
C1_Witness ==
    /\ pc \in {"fetch", "art", "post"}
    /\ scrobble /= {}
    /\ n_batch > inserted


\* C2: in a run that follows a completed run whose page counts were the true
\* ones, with the remote history unchanged since that run began, no step changes
\* the number of rows of scrobble: the count after the second run is the count
\* after the first.
C2_SyncIdempotent ==
    [][(/\ outcome = "running"
        /\ lastDone.outcome = "completed"
        /\ lastDone.stable
        /\ lastDone.honest)
       => Cardinality(scrobble') = Cardinality(scrobble)]_vars

\* the second run is over its pages, having fetched a play that was stored
C2_Witness ==
    /\ pc = "post"
    /\ lastDone.outcome = "completed" /\ lastDone.stable /\ lastDone.honest
    /\ n_batch > 0
    /\ Cardinality(scrobble) >= 2

\* C3 (as claimed): the Init step that follows a completed run, every play of the
\* unchanged remote history being stored and the newest having timestamp T, sets
\* from_ts to T + 1.
C3_CursorIsNewestPlusOne ==
    [][(/\ pc = "idle" /\ pc' = "fetch"
        /\ lastDone.outcome = "completed" /\ lastDone.stable /\ lastDone.honest
        /\ nRemote > 0
        /\ \A i \in 1..nRemote : Stored(scrobble, i))
       => from_ts' = << history[nRemote].uts + 1 >>]_vars

\* C4 (as claimed): a run that completes stores every play of the remote history
\* whose timestamp is that of the newest row stored when the run began.
C4_SameSecondNotSkipped ==
    [][(/\ pc = "post" /\ pc' = "idle"
        /\ run.stable /\ run.honest
        /\ from_ts /= None)
       => \A i \in 1..nRemote :
             history[i].uts = from_ts[1] - 1 => Stored(scrobble', i)]_vars

\* C5 (as claimed): when the run after an aborted run completes, the remote
\* history unchanged since the aborted run began, every play the aborted run had
\* to fetch is stored, and none twice.
C5_RerunAfterAbortComplete ==
    [][(/\ pc = "post" /\ pc' = "idle"
        /\ lastDone.outcome = "aborted" /\ lastDone.stable
        /\ run.honest)
       => /\ \A i \in 1..nRemote :
                (lastDone.from = None \/ history[i].uts >= lastDone.from[1])
                   => Stored(scrobble', i)
          /\ ScrobbleUnique']_vars

\* C6: a failed fetch ends the run: the failing step writes nothing and leaves
\* the run idle with no album_art batch pending, and until a new run begins no
\* page is fetched, no row is written and the post-pass does not run; the rows
\* committed before stay as they are.
C6_AbortStopsRun ==
    /\ [](outcome = "aborted" => pc = "idle" /\ album_batch = <<>>)
    /\ [][outcome' = "aborted" =>
            /\ scrobble' = scrobble
            /\ album_art' = album_art
            /\ pc' = "idle"]_vars

\* a run that failed on a page after the first: it began on an empty table
C6_Witness ==
    /\ outcome = "aborted"
    /\ lastDone.from = None
    /\ scrobble /= {}

\* a turn of the loop has ended (with the second commit when there is one)
TurnEnds ==
    /\ pc \in {"fetch", "art"}
    /\ pc' \in {"fetch", "post"}
    /\ nRemote' = nRemote

\* C7: every run ends; a page without completed plays ends the loop and writes
\* nothing, whatever total it reports; page p + 1 is fetched exactly when page p
\* held a completed play and p is below the total reported with it (a missing
\* total counts as p).
C7_LoopTerminates ==
    /\ (outcome = "running") ~> (outcome /= "running")
    /\ [][FetchStep /\ n_batch' = 0 =>
            pc' = "post" /\ scrobble' = scrobble /\ album_art' = album_art]_vars
    /\ [][TurnEnds =>
            /\ pc' = "fetch" <=> (/\ n_batch' > 0
                                  /\ total_pages' /= NoAttr
                                  /\ page < total_pages'[1])
            /\ page' = IF pc' = "fetch" THEN page + 1 ELSE page]_vars

\* the loop has stopped on an empty page that reported more pages
C7_Witness ==
    /\ pc = "post"
    /\ n_batch = 0
    /\ total_pages /= NoAttr
    /\ total_pages[1] > page

ArtistsOf(table, al) == {r.artist : r \in {x \in table : x.album = al}}

\* the post-pass with its UPDATE
PostPassUpdates == pc = "post" /\ pc' = "idle" /\ total_new_scrobbles > 0

\* C8 (as claimed): after the post-pass every row whose album is shared by rows
\* of at least 3 artists has album_artist 'Various Artists'.
C8_EveryThreeArtistAlbum ==
    [][PostPassUpdates =>
          \A r \in scrobble' :
             Cardinality(ArtistsOf(scrobble', r.album)) >= 3
                => r.album_artist = VariousArtists]_vars

\* C8 (amended): the post-pass sets album_artist to 'Various Artists' in every row
\* whose album name is not empty and is shared by rows of at least 3 artists, and
\* changes no other row: none of an album of 1 or 2 artists, none without album.
C8_CompilationThreshold ==
    [][PostPassUpdates =>
          /\ Cardinality(scrobble') = Cardinality(scrobble)
          /\ \A r \in scrobble :
                IF r.album /= <<>> /\ Cardinality(ArtistsOf(scrobble, r.album)) >= 3
                THEN [r EXCEPT !.album_artist = VariousArtists] \in scrobble'
                ELSE r \in scrobble']_vars

\* a completed run has left a compilation and, untouched, an album of 2 artists
C8_Witness ==
    /\ outcome = "completed"
    /\ \E r \in scrobble : r.album_artist = VariousArtists
    /\ \E r \in scrobble :
          /\ Cardinality(ArtistsOf(scrobble, r.album)) = 2
          /\ r.album_artist = r.artist

\* C9: album_art holds one row per (artist, album) that was upserted, and each of
\* its six columns holds the last non-null value upserted for it (null when there
\* was none): a null never replaces a value.
C9_UpsertMerge ==
    /\ \A a1, a2 \in album_art : ArtKey(a1) = ArtKey(a2) => a1 = a2
    /\ {ArtKey(a) : a \in album_art} = DOMAIN upserted
    /\ \A a \in album_art : \A c \in ArtColumns : a[c] = upserted[ArtKey(a)][c]

\* a row that got its full-size image from one upsert and thumbnails from others
C9_Witness ==
    \E a \in album_art :
       /\ a.image_large = "L1"
       /\ a.image_small = "S3"
       /\ a.album_mbid = "mb1"

\* C10 (as claimed): clean_remastered_suffix leaves every stored album and track
\* title as it is.
C10_StoredTitlesSuffixFree ==
    \A r \in scrobble :
       /\ clean_remastered_suffix(r.album) = r.album
       /\ clean_remastered_suffix(r.track) = r.track

\* C11 (as claimed): no row of scrobble has an empty album or track title where
\* the play it stores had a non-empty title at the remote: a title that
\* clean_remastered_suffix would empty is stored as it came.
C11_NoEmptiedTitle ==
    \A i \in 1..nRemote : \A r \in scrobble :
       ScrobbleKey(r) = ScrobbleKey(ScrobbleRow(history[i])) =>
          /\ (history[i].album /= <<>> => r.album /= <<>>)
          /\ (history[i].name /= <<>> => r.track /= <<>>)

\* C12: for a base title that a cleaner leaves as it is, that cleaner returns
\* exactly the base both for base + " - <year> Remastered" and for
\* base + " (Remastered)"; this holds for clean_remastered_suffix of sync_lastfm.py
\* and for the one of clean_remastered_db.py.
C12_RemasterFormsCollapse ==
    LET B == title.base
    IN  (B /= <<>> /\ title.suffix \in {<<"-", "Y", "Rem">>, <<"(Rem)">>}) =>
           /\ (cleaned.sync /= None /\ clean_remastered_suffix(B) = B)
                 => cleaned.sync = << B >>
           /\ (cleaned.db /= None /\ db_clean_remastered_suffix(B) = B)
                 => cleaned.db = << B >>

\* "Track 2009 - 2009 Remastered" has gone through both cleaners and came out as
\* "Track 2009"
C12_Witness ==
    /\ title = [base |-> <<"W", "Y">>, suffix |-> <<"-", "Y", "Rem">>]
    /\ cleaned = [sync |-> << <<"W", "Y">> >>, db |-> << <<"W", "Y">> >>]

\* the plays on the page the loop is about to fetch
OnPage ==
    {PageOf(Listing(nRemote, from_ts), page)[k] :
        k \in 1..Len(PageOf(Listing(nRemote, from_ts), page))}

WellFormed(t) == t.date /\ t.has_name

\* C13 (as claimed): a turn of the loop whose fetch succeeded, on a page that
\* holds an item without timestamp or without track name, does not end the run
\* with an exception and leaves every well-formed completed play of the page
\* stored.
C13_MalformedItemSkipped ==
    [][ ( /\ pc = "fetch"
          /\ nRemote' = nRemote
          /\ outcome' /= "aborted"
          /\ \E i \in OnPage : ~WellFormed(history[i]) )
        => /\ outcome' /= "crashed"
           /\ \A i \in OnPage : WellFormed(history[i]) => Stored(scrobble', i) ]_vars

\* the tracklist rows of the album get_album_tracks resolved
ResolvedTracklist ==
    {x \in album_tracks : x.artist = results.artist /\ << x.album >> = results.canonical}

\* the stored plays of the album asked for that have the comparison key of tr
PlaysWithKey(tr) ==
    {r \in pooled_scrobbles(results.artist, results.album, results.range) :
        normalize_track_name_for_matching(r.track)
           = normalize_track_name_for_matching(tr.track)}

\* C14: when no tracklist is stored for the artist under a spelling with the
\* album's comparison key, get_album_tracks returns the empty list; otherwise it
\* returns as many rows as the resolved tracklist has, every tracklist row is
\* the source of exactly one of them, which carries its track number and its
\* track name as the tracklist spells it, and a row has play count 0 when no
\* stored play of the album has the comparison key of its track.
C14_OneRowPerCanonicalTrack ==
    results /= None =>
       IF results.canonical = None
       THEN /\ results.rows = <<>>
            /\ \A x \in album_tracks :
                  ~ ( /\ x.artist = results.artist
                      /\ normalize_for_matching(x.album)
                            = normalize_for_matching(results.album) )
       ELSE /\ normalize_for_matching(results.canonical[1])
                  = normalize_for_matching(results.album)
            /\ Len(results.rows) = Cardinality(ResolvedTracklist)
            /\ \A x \in ResolvedTracklist :
                  /\ Cardinality({i \in 1..Len(results.rows) :
                        /\ results.rows[i].track_number = x.track_number
                        /\ results.rows[i].track_name = x.track}) = 1
                  /\ \A i \in 1..Len(results.rows) :
                        ( /\ results.rows[i].track_number = x.track_number
                          /\ PlaysWithKey(x) = {} ) => results.rows[i].plays = 0

\* the page of "OK Computer" with three rows: "Main Theme" with the play that
\* was scrobbled as "Main Theme - Remastered", "Outro" with no play
C14_Witness ==
    /\ results /= None
    /\ results.canonical = << <<"OK", "Computer">> >>
    /\ Len(results.rows) = 3
    /\ \E i, j \in 1..3 :
          /\ results.rows[i].track_name = <<"Main", "Theme">>
          /\ results.rows[i].plays = 1
          /\ results.rows[j].track_name = <<"Outro">>
          /\ results.rows[j].plays = 0
    /\ \E r \in scrobble : r.track = <<"Main", "Theme", "-", "Remastered">>

\* the empty list for an album without tracklist
C14_WitnessEmpty ==
    /\ results /= None
    /\ results.canonical = None
    /\ results.rows = <<>>
    /\ scrobble /= {}

\* C15 (as claimed): the play count of a row is the number of stored plays of
\* the album, under every pooled spelling, whose track has the row's comparison
\* key: of those by the album artist when there is one, of those by any artist
\* otherwise.
C15_PlayCountIsSum ==
    (results /= None /\ results.canonical /= None) =>
       \A x \in ResolvedTracklist : \A i \in 1..Len(results.rows) :
          results.rows[i].track_number = x.track_number =>
             results.rows[i].plays =
                IF \E r \in PlaysWithKey(x) : r.artist = results.artist
                THEN Cardinality({r \in PlaysWithKey(x) : r.artist = results.artist})
                ELSE Cardinality(PlaysWithKey(x))

\* C16: the rows come by track number ascending; with sort_by = 'plays' they
\* come by play count descending and, among equal play counts, by track number
\* ascending.
C16_RowOrder ==
    results /= None =>
       \A i, j \in 1..Len(results.rows) :
          i < j =>
             IF results.sort_by = "plays"
             THEN \/ results.rows[i].plays > results.rows[j].plays
                  \/ /\ results.rows[i].plays = results.rows[j].plays
                     /\ results.rows[i].track_number <= results.rows[j].track_number
             ELSE results.rows[i].track_number <= results.rows[j].track_number

\* a page sorted by plays: track 2 first, then tracks 1 and 3 with equal counts
C16_Witness ==
    /\ results /= None
    /\ results.sort_by = "plays"
    /\ Len(results.rows) = 3
    /\ results.rows[1].track_number = 2
    /\ results.rows[2].track_number = 1
    /\ results.rows[3].track_number = 3
    /\ results.rows[1].plays > results.rows[2].plays
    /\ results.rows[2].plays = results.rows[3].plays

\* a URL, as opposed to None and 'N/A': it begins with the language
IsUrl(u) == u /= None /\ u[1] \in {"en", "pl"}

\* C17: no URL the resolver returns, and none stored in album_art, is that of a
\* page whose title carries the tag "(song)".
C17_NoSongPage ==
    /\ IsUrl(view.url) => "(song)" \notin Words(Tail(view.url))
    /\ \A k \in DOMAIN wikipedia_url :
          IsUrl(wikipedia_url[k]) => "(song)" \notin Words(Tail(wikipedia_url[k]))

\* a lookup in which a song page was among the results and the album page was
\* returned
C17_Witness ==
    /\ view.pc = "idle"
    /\ view.song_seen
    /\ view.last = "results"
    /\ view.url = PageUrl("en", <<"In", "Rainbows">>)

\* C18 (as claimed): no detail view begins the external search for an album for
\* which an earlier search has yielded NotFound.
C18_NoSecondSearch ==
    [][ (view.pc = "idle" /\ view'.pc = "search")
           => << view'.artist, view'.album >> \notin searches ]_vars

\* C19 (as claimed): an attempt that fails (transport error, status other than
\* 200, malformed response) never raises; the next query is tried if there is
\* one, and otherwise the lookup ends with 'N/A'.
C19_FailureIsNoMatch ==
    [][ (view.pc = "search" /\ view' /= view /\ view'.last \in FailureKinds)
           => /\ view'.outcome /= "raised"
              /\ IF next_template(view.attempt, view.album) /= 0
                 THEN /\ view'.pc = "search"
                      /\ view'.attempt = next_template(view.attempt, view.album)
                 ELSE /\ view'.pc = "idle"
                      /\ view'.url = NotFound ]_vars

\* the mismatches the operator approved in this session
Approved ==
    {reviewed[i].mismatch : i \in {j \in 1..Len(reviewed) :
                                       reviewed[j].answer \in {"y", "s", "a"}}}

SessionBegun == session.pc /= "idle" \/ session.ended /= "none"

\* C20: relative to the tables as the session found them, (1) a scrobble row
\* whose album or track differs, and an album_tracks row that is gone, is named
\* by a mismatch the operator answered y, s or a; (2) while the session runs,
\* and after it ended by a quit without saving, an interrupt, the menu's quit
\* or without approved changes, both tables are as they were.
C20_NoRenameWithoutConfirmation ==
    SessionBegun =>
       /\ \A r \in session.before.scrobble : \A q \in scrobble :
             q.id = r.id =>
                /\ q.album /= r.album =>
                      \E m \in Approved : /\ m.category = "album"
                                          /\ m.artist = r.artist
                                          /\ m.scrobble_name = r.album
                /\ q.track /= r.track =>
                      \E m \in Approved : /\ m.category = "track"
                                          /\ m.artist = r.artist
                                          /\ m.album = r.album
                                          /\ m.scrobble_name = r.track
       /\ \A x \in session.before.album_tracks \ album_tracks :
             \E m \in Approved :
                /\ m.artist = x.artist
                /\ \/ m.category = "album" /\ m.album_tracks_name = x.album
                   \/ /\ m.category = "track"
                      /\ m.album = x.album
                      /\ m.album_tracks_name = x.track
       /\ Cardinality(scrobble) = Cardinality(session.before.scrobble)
       /\ (session.pc /= "idle"
             \/ session.ended \in {"quit", "interrupted", "menu quit", "nothing", "clean"})
             => /\ scrobble = session.before.scrobble
                /\ album_tracks = session.before.album_tracks

\* a session in which one mismatch was approved and one declined, and the
\* changes were applied
C20_Witness ==
    /\ session.ended = "applied"
    /\ \E i, j \in 1..Len(reviewed) : reviewed[i].answer = "y" /\ reviewed[j].answer = "n"
    /\ album_tracks /= session.before.album_tracks

\* a session with approved changes that the operator quit without saving
C20_WitnessQuit ==
    /\ session.ended = "quit"
    /\ session.all_approved /= <<>>
    /\ scrobble = session.before.scrobble
    /\ album_tracks = session.before.album_tracks

\* what get_album_tracks returns when both its queries find the table T
OnOneTable(T) ==
    match_album_tracks(
        scrobble_dict(scrobbles_of(T, results.artist,
                                   all_scrobble_albums(T, results.artist, results.album),
                                   results.range)),
        results.artist, results.album, results.sort_by)

\* C21: what a call of get_album_tracks returned while sync_lastfm ran is what
\* it returns on one committed table: the one it found at its first query, or
\* one that sync_lastfm committed before its last query.
C21_ReadsOneCommittedState ==
    (IF results = None THEN FALSE
     ELSE results.pc = "done" /\ results.canonical /= None)
       => \E T \in commits :
             [canonical |-> results.canonical, rows |-> results.rows] \in OnOneTable(T)

\* C22: in every committed state of the store the cover-image upserts of a page
\* whose listening events are stored are stored too: none of them is still to
\* be written.
C22_PageAtomic == UpsertAll(album_art, album_batch) = album_art

\* C23: a run fetches page 1 first and then the pages in increasing number; it
\* goes on to page p+1 only when the events of page p are committed; and the
\* rows a page inserts are inserted in non-decreasing order of uts.
C23_PersistenceOrder ==
    [][ /\ (pc = "idle" /\ pc' = "fetch") => page' = 1
        /\ (pc /= "idle" /\ pc' /= "idle" /\ page' /= page) => page' = page + 1
        /\ (pc /= "idle" /\ pc' = "fetch" /\ page' = page + 1)
              => IF pc = "fetch"
                 THEN \A i \in OnPage : Completed(history[i]) => Stored(scrobble', i)
                 ELSE pc = "art" /\ n_batch > 0 /\ scrobble' = scrobble
        /\ FetchStep
              => \A x, y \in scrobble' \ scrobble : x.id < y.id => x.uts <= y.uts ]_vars

\* the second page is about to be fetched and the first, which the remote listed
\* newest first, inserted two rows of different uts
C23_Witness ==
    /\ pc = "fetch"
    /\ page = 2
    /\ inserted = 2
    /\ Cardinality(scrobble) = 2
    /\ \E x, y \in scrobble : x.id < y.id /\ x.uts < y.uts

\* C24: the cursor is MAX(uts) over the stored events, read when a run begins
\* (the run asks for the events from the second after it); it is the same for
\* every page of the run; and over all runs, completed or aborted, that maximum
\* never decreases, since no step deletes a row or changes its uts.
C24_CursorForward ==
    [][ /\ get_last_uts(scrobble') >= get_last_uts(scrobble)
        /\ \A r \in scrobble : \E x \in scrobble' : x.id = r.id /\ x.uts = r.uts
        /\ (pc = "idle" /\ pc' = "fetch")
              => from_ts' = IF scrobble = {} THEN None
                            ELSE << Max({r.uts : r \in scrobble}) + 1 >>
        /\ (pc /= "idle" /\ pc' /= "idle") => from_ts' = from_ts ]_vars

\* a run that began on a store left by an aborted run is at its second page,
\* and the post-pass of an earlier run has rewritten rows
C24_Witness ==
    /\ pc = "fetch"
    /\ page = 2
    /\ from_ts /= None
    /\ lastDone.outcome = "aborted"
    /\ \E r \in scrobble : r.album_artist = VariousArtists

\* C25: the new-event counter of a run grows, with every page, by the number
\* of rows the page really inserted into scrobble (so that the post-pass, which
\* runs when the counter is positive, runs exactly when the run inserted a row).
C25_CounterIsInserted ==
    [][ (pc = "fetch" /\ pc' /= "idle")
           => total_new_scrobbles'
                 = total_new_scrobbles + Cardinality(scrobble' \ scrobble) ]_vars

\* C26: when the run that ended last completed, every stored event whose album
\* (one with a name) has events of at least 3 distinct artists has album_artist
\* 'Various Artists', whatever runs were aborted before it.
C26_ClassifiedAfterCompletedRun ==
    (pc = "idle" /\ lastDone.outcome = "completed")
       => \A r \in scrobble :
             (r.album /= <<>> /\ Cardinality(ArtistsOf(scrobble, r.album)) >= 3)
                => r.album_artist = VariousArtists

\* C27: the resolver issues its queries in the order of Templates, the English
\* ones before the same ones in Polish, each time the next one that applies; it
\* issues no query once a query has returned a URL, and the URL it returns is
\* that of the query issued last, every earlier one being without a match.
C27_FixedOrderFirstMatch ==
    [][ /\ \A k \in 1..5 : /\ Templates[k].lang = "en"
                           /\ Templates[k + 5] = [Templates[k] EXCEPT !.lang = "pl"]
        /\ (view.pc = "idle" /\ view'.pc = "search")
              => view'.attempt = 1 /\ ~IsUrl(view'.url)
        /\ (view.pc = "search" /\ view'.pc = "search")
              => /\ ~IsUrl(view'.url)
                 /\ view'.attempt > view.attempt
                 /\ \A j \in (view.attempt + 1)..view'.attempt :
                       (j = view'.attempt)
                          <=> (Templates[j].original
                                  => strip_edition(view.album) /= view.album)
                 /\ \E response \in Responses :
                       /\ response.kind = view'.last
                       /\ search_wikipedia(response, view.artist, view.album,
                                           IF Templates[view.attempt].original
                                           THEN view.album
                                           ELSE strip_edition(view.album),
                                           Templates[view.attempt].lang).url = None
        /\ (view.pc = "search" /\ view'.pc = "idle" /\ IsUrl(view'.url))
              => /\ view'.attempt = view.attempt
                 /\ view'.url[1] = Templates[view.attempt].lang
                 /\ \E response \in Responses :
                       /\ response.kind = view'.last
                       /\ search_wikipedia(response, view.artist, view.album,
                                           IF Templates[view.attempt].original
                                           THEN view.album
                                           ELSE strip_edition(view.album),
                                           Templates[view.attempt].lang).url
                             = view'.url ]_vars

\* a lookup of the deluxe edition that found the page with the fourth Polish
\* query, the ninth of the ten, after the eight before it were left without a match
C27_Witness ==
    /\ view.pc = "idle"
    /\ view.album = InRainbowsDeluxe
    /\ view.attempt = 9
    /\ view.url = PageUrl("pl", <<"In", "Rainbows">>)

\* C28 (as claimed): once apply_changes has applied a single approved change, the
\* two tables agree on the name of its mismatch: neither holds a row of it under
\* a spelling other than the one chosen, which is the normalized name for 'y',
\* the spelling of scrobble for 's' and the spelling of album_tracks for 'a'.
C28_TablesAgree ==
    (session.pc = "idle" /\ session.ended = "applied" /\ Len(session.all_approved) = 1)
       => LET change == session.all_approved[1]
              chosen == IF change.action = "y" THEN change.normalized
                        ELSE IF change.action = "s" THEN change.scrobble_name
                        ELSE change.album_tracks_name
              NameIn(row) == IF change.category = "album" THEN row.album ELSE row.track
              OfMismatch(row) ==
                  /\ row.artist = change.artist
                  /\ change.category = "track" => row.album = change.album
          IN  /\ \A r \in scrobble :
                    (OfMismatch(r) /\ NameIn(r) = change.scrobble_name)
                       => NameIn(r) = chosen
              /\ \A x \in album_tracks :
                    (OfMismatch(x) /\ NameIn(x) = change.album_tracks_name)
                       => NameIn(x) = chosen

\* C29 (as claimed): when clean_album_art_table moves a row to a cleaned name
\* under which album_art already holds a row, the row stored under that name
\* afterwards keeps every non-null field of the row that was there: its images,
\* its MBIDs and its wikipedia_url, 'N/A' included.
C29_MergeOnCollision ==
    [][ \A old \in album_art :
           (/\ ~like_remaster(old.album)
            /\ \E r \in album_art :
                  /\ like_remaster(r.album)
                  /\ r.artist = old.artist
                  /\ db_clean_remastered_suffix(r.album) = old.album)
              => /\ \E new \in album_art' :
                       /\ ArtKey(new) = ArtKey(old)
                       /\ \A c \in ArtColumns : old[c] /= NULL => new[c] = old[c]
                 /\ wikipedia_url[ArtKey(old)] /= None
                       => wikipedia_url'[ArtKey(old)] = wikipedia_url[ArtKey(old)] ]_vars

\* C30 (as claimed): the penalty of 40 keeps a candidate without corroboration
\* below the threshold of 20, so no query returns the URL of a page whose title
\* has no "(album)", does not hold the artist's comparison key and is not the
\* comparison key of the album, for an album name of fewer than three words.
C30_PenaltyBelowThreshold ==
    [][ (view.pc = "search" /\ IsUrl(view'.url))
           => LET page_title == Tail(view'.url)
                  normalized_title == normalize_for_comparison(page_title)
                  normalized_artist == normalize_for_comparison(view.artist)
                  normalized_album ==
                      normalize_for_comparison(IF Templates[view.attempt].original
                                               THEN view.album
                                               ELSE strip_edition(view.album))
              IN  Len(normalized_album) < 3
                     => \/ "(album)" \in Words(page_title)
                        \/ Contains(normalized_title, normalized_artist)
                        \/ normalized_title = normalized_album ]_vars

====
